---- MODULE Spec2Model ----
(***************************************************************************)
(* Sorting visualizer / quiz game: the six step-generation engines, the    *)
(* move validation of each engine, the GameManager session, the end of a   *)
(* game in the app (statistics, achievements and grade), and the Animator  *)
(* of demo mode with its play() and stepForward() calls in flight.         *)
(*                                                                         *)
(* Arrays are TLA+ sequences; the JavaScript code indexes from 0, so every *)
(* index recorded in a step is the 0-based index of the code and Get/Swap  *)
(* translate.  The description string of a step is not modelled.           *)
(***************************************************************************)
EXTENDS Integers, Sequences, FiniteSets, TLC

\* ------------------------------------------------------------------ bounds
MaxLen == 4
MaxVal == 3
\* Math.random() returns a multiple of 1 / RandDen
RandDen == 1
\* sessions are played on traces with at most MaxUserActions user-action steps
MaxUserActions == 12
\* at most MaxIncorrect invalid moves are submitted in a session
MaxIncorrect == 1
\* a session completes after 0..MaxElapsed halves of its optimal time
MaxElapsed == 2
\* most user-action steps of a trace played or shown with demo mode
MaxDemoUserActions == 8
\* calculateGrade is called on the final scores 0..MaxGradeScore
MaxGradeScore == 4600
\* at most MaxGames completed games are recorded in the storage
MaxGames == 5
\* generateArray is also run with Math.random() returning the multiples of
\* 1 / den for each den in 1..MaxArrayDen
MaxArrayDen == 4
\* the Animator is loaded with traces of at most MaxAnimatorSteps steps
MaxAnimatorSteps == 3
\* at most MaxPlayLoops play() calls and MaxStepForwards stepForward() calls
\* are in flight together
MaxPlayLoops == 2
MaxStepForwards == 1
\* play() is called while the completion callback has run fewer than
\* MaxCompleteCalls times
MaxCompleteCalls == 1

\* ------------------------------------------------------- program constants
\* the value JavaScript yields for an out-of-range array read (undefined)
Undefined == -1
\* startTime / endTime before they are set (null)
NoTime == -1

Algs == {"bubble", "selection", "insertion", "merge", "quick", "heap"}
SwapAlgs == {"bubble", "selection", "insertion", "quick", "heap"}

\* --------------------------------------------------------------- helpers
Get(arr, i) == IF i >= 0 /\ i < Len(arr) THEN arr[i + 1] ELSE Undefined

Swap(arr, i, j) == [arr EXCEPT ![i + 1] = arr[j + 1], ![j + 1] = arr[i + 1]]

Put(arr, i, v) == [arr EXCEPT ![i + 1] = v]

Last(s) == s[Len(s)]

\* variant of the map that leaves out the indices outside the array
RECURSIVE MapGetInRange(_, _)
MapGetInRange(arrayState, indices) ==
    IF indices = <<>> THEN <<>>
    ELSE (IF Head(indices) >= 0 /\ Head(indices) < Len(arrayState)
          THEN <<Get(arrayState, Head(indices))>> ELSE <<>>)
         \o MapGetInRange(arrayState, Tail(indices))

\* indices.map(i => arrayState[i])
RECURSIVE MapGet(_, _)
MapGet(arrayState, indices) ==
    IF indices = <<>> THEN <<>>
    ELSE <<Get(arrayState, Head(indices))>> \o MapGet(arrayState, Tail(indices))

\* variant of createStep that records the range of the indices it is given
CreateStepRecordsRange(type, indices, arrayState, isUserAction) ==
    LET range == IF Len(indices) = 1 THEN <<indices[1], indices[1]>> ELSE indices
    IN [arrayState   |-> arrayState,
        indices      |-> range,
        type         |-> type,
        isUserAction |-> isUserAction,
        values       |-> MapGet(arrayState, range)]

\* createStep(type, indices, arrayState, description, isUserAction)
CreateStep(type, indices, arrayState, isUserAction) ==
    [arrayState   |-> arrayState,
     indices      |-> indices,
     type         |-> type,
     isUserAction |-> isUserAction,
     values       |-> MapGet(arrayState, indices)]

\* variant of the sorted marks that starts one position late
SortedMarksFromNext(steps, arr, from, to) ==
    steps \o [k \in 1..(to - from) |->
                CreateStep("sorted", <<from + k>>, arr, FALSE)]

\* sorted marks for positions from..to (ascending), all on the same array
SortedMarks(steps, arr, from, to) ==
    steps \o [k \in 1..(to - from + 1) |->
                CreateStep("sorted", <<from + k - 1>>, arr, FALSE)]

\* ------------------------------------------------------------ bubble sort
\* variant of the test of the inner loop that also swaps equal neighbours
OutOfOrderOrEqual(arr, j) == Get(arr, j) >= Get(arr, j + 1)

\* the test of the inner loop: arr[j] > arr[j + 1]
OutOfOrder(arr, j) == Get(arr, j) > Get(arr, j + 1)

\* inner loop: for (j = 0; j < n - i - 1; j++)
RECURSIVE BubbleInner(_, _, _)
\* variant of the inner loop that records the swap step after the exchange
BubbleInnerRecordsAfter(st, j, lim) ==
    IF j >= lim THEN st
    ELSE LET s1 == Append(st.steps, CreateStep("compare", <<j, j + 1>>, st.arr, FALSE))
         IN IF OutOfOrder(st.arr, j)
            THEN BubbleInner([arr     |-> Swap(st.arr, j, j + 1),
                              steps   |-> Append(s1, CreateStep("swap", <<j, j + 1>>,
                                                                Swap(st.arr, j, j + 1), TRUE)),
                              swapped |-> TRUE], j + 1, lim)
            ELSE BubbleInner([st EXCEPT !.steps = s1], j + 1, lim)

BubbleInner(st, j, lim) ==
    IF j >= lim THEN st
    ELSE LET s1 == Append(st.steps, CreateStep("compare", <<j, j + 1>>, st.arr, FALSE))
         IN IF OutOfOrder(st.arr, j)
            THEN BubbleInner([arr     |-> Swap(st.arr, j, j + 1),
                              steps   |-> Append(s1, CreateStep("swap", <<j, j + 1>>, st.arr, TRUE)),
                              swapped |-> TRUE], j + 1, lim)
            ELSE BubbleInner([st EXCEPT !.steps = s1], j + 1, lim)

\* outer loop: for (i = 0; i < n - 1; i++), with the early exit
RECURSIVE BubbleOuter(_, _, _)
\* variant of the outer loop without the early exit
BubbleOuterNoExit(st, i, n) ==
    IF i >= n - 1 THEN st
    ELSE LET r  == BubbleInner([arr |-> st.arr, steps |-> st.steps, swapped |-> FALSE],
                               0, n - i - 1)
             s2 == Append(r.steps, CreateStep("sorted", <<n - i - 1>>, r.arr, FALSE))
         IN BubbleOuter([arr |-> r.arr, steps |-> s2, swapped |-> r.swapped], i + 1, n)

BubbleOuter(st, i, n) ==
    IF i >= n - 1 THEN st
    ELSE LET r  == BubbleInner([arr |-> st.arr, steps |-> st.steps, swapped |-> FALSE],
                               0, n - i - 1)
             s2 == Append(r.steps, CreateStep("sorted", <<n - i - 1>>, r.arr, FALSE))
         IN IF ~r.swapped
            THEN [arr |-> r.arr, steps |-> SortedMarks(s2, r.arr, 0, n - i - 2), swapped |-> FALSE]
            ELSE BubbleOuter([arr |-> r.arr, steps |-> s2, swapped |-> TRUE], i + 1, n)

BubbleGenerateSteps(inputArray) ==
    LET r == BubbleOuter([arr |-> inputArray, steps |-> <<>>, swapped |-> FALSE],
                         0, Len(inputArray))
    IN IF Len(r.steps) > 0 /\ Get(Last(r.steps).indices, 0) # 0
       THEN Append(r.steps, CreateStep("sorted", <<0>>, r.arr, FALSE))
       ELSE r.steps

\* --------------------------------------------------------- selection sort
\* inner scan: for (j = i + 1; j < n; j++)
RECURSIVE SelectionScan(_, _, _, _)
SelectionScan(st, arr, j, n) ==
    IF j >= n THEN st
    ELSE LET s1 == Append(st.steps, CreateStep("compare", <<st.minIndex, j>>, arr, FALSE))
         IN IF Get(arr, j) < Get(arr, st.minIndex)
            THEN SelectionScan([minIndex |-> j,
                                steps    |-> Append(s1, CreateStep("select", <<j>>, arr, FALSE))],
                               arr, j + 1, n)
            ELSE SelectionScan([st EXCEPT !.steps = s1], arr, j + 1, n)

RECURSIVE SelectionOuter(_, _, _)
SelectionOuter(st, i, n) ==
    IF i >= n - 1 \/ Len(st.arr) # n THEN st    \* n is arr.length throughout
    ELSE LET s0 == Append(st.steps, CreateStep("select", <<i>>, st.arr, FALSE))
             r  == SelectionScan([minIndex |-> i, steps |-> s0], st.arr, i + 1, n)
             s1 == IF r.minIndex # i
                   THEN Append(r.steps, CreateStep("swap", <<i, r.minIndex>>, st.arr, TRUE))
                   ELSE r.steps
             a1 == IF r.minIndex # i THEN Swap(st.arr, i, r.minIndex) ELSE st.arr
         IN SelectionOuter([arr   |-> a1,
                            steps |-> Append(s1, CreateStep("sorted", <<i>>, a1, FALSE))],
                           i + 1, n)

SelectionGenerateSteps(inputArray) ==
    LET n == Len(inputArray)
        r == SelectionOuter([arr |-> inputArray, steps |-> <<>>], 0, n)
    IN Append(r.steps, CreateStep("sorted", <<n - 1>>, r.arr, FALSE))

\* --------------------------------------------------------- insertion sort
\* while (j >= 0 && arr[j] > key): compare, swap step, shift, j--
RECURSIVE InsertionShift(_, _, _)
InsertionShift(st, j, key) ==
    IF j >= 0 /\ Get(st.arr, j) > key
    THEN LET s1 == Append(st.steps, CreateStep("compare", <<j, j + 1>>, st.arr, FALSE))
             s2 == Append(s1, CreateStep("swap", <<j, j + 1>>, st.arr, TRUE))
         IN InsertionShift([arr   |-> Put(Put(st.arr, j + 1, Get(st.arr, j)), j, key),
                            steps |-> s2,
                            j     |-> j - 1], j - 1, key)
    ELSE [st EXCEPT !.j = j]

RECURSIVE InsertionOuter(_, _, _)
InsertionOuter(st, i, n) ==
    IF i >= n \/ Len(st.arr) # n THEN st    \* n is arr.length throughout
    ELSE LET key == Get(st.arr, i)
             s0  == Append(st.steps, CreateStep("select", <<i>>, st.arr, FALSE))
             r   == InsertionShift([arr |-> st.arr, steps |-> s0, j |-> i - 1], i - 1, key)
             s1  == IF r.j = i - 1
                    THEN Append(r.steps, CreateStep("compare", <<r.j, i>>, r.arr, FALSE))
                    ELSE r.steps
         IN InsertionOuter([arr   |-> r.arr,
                            steps |-> Append(s1, CreateStep("insert", <<r.j + 1>>, r.arr, FALSE))],
                           i + 1, n)

InsertionGenerateSteps(inputArray) ==
    LET n  == Len(inputArray)
        s0 == <<CreateStep("sorted", <<0>>, inputArray, FALSE)>>
        r  == InsertionOuter([arr |-> inputArray, steps |-> s0], 1, n)
    IN SortedMarks(r.steps, r.arr, 0, n - 1)

\* ------------------------------------------------------------- merge sort
\* variant of the test of merge() that takes the right element on a tie
LeftFirstStrict(L, R, i, j) == Get(L, i) < Get(R, j)

\* the test of merge(): L[i] <= R[j]
LeftFirst(L, R, i, j) == Get(L, i) <= Get(R, j)

\* the three while loops of merge(): both runs non-empty, rest of L, rest of R
RECURSIVE MergeLoop(_, _, _, _, _, _, _, _)
MergeLoop(st, L, R, i, j, k, left, mid) ==
    IF i < Len(L) /\ j < Len(R)
    THEN LET s1 == Append(st.steps,
                          CreateStep("compare", <<left + i, mid + 1 + j>>, st.arr, FALSE))
             s2 == Append(s1, CreateStep("select", <<k>>, st.arr, TRUE))
         IN IF LeftFirst(L, R, i, j)
            THEN MergeLoop([arr |-> Put(st.arr, k, Get(L, i)), steps |-> s2],
                           L, R, i + 1, j, k + 1, left, mid)
            ELSE MergeLoop([arr |-> Put(st.arr, k, Get(R, j)), steps |-> s2],
                           L, R, i, j + 1, k + 1, left, mid)
    ELSE IF i < Len(L)
    THEN MergeLoop([arr   |-> Put(st.arr, k, Get(L, i)),
                    steps |-> Append(st.steps, CreateStep("select", <<k>>, st.arr, TRUE))],
                   L, R, i + 1, j, k + 1, left, mid)
    ELSE IF j < Len(R)
    THEN MergeLoop([arr   |-> Put(st.arr, k, Get(R, j)),
                    steps |-> Append(st.steps, CreateStep("select", <<k>>, st.arr, TRUE))],
                   L, R, i, j + 1, k + 1, left, mid)
    ELSE st

\* merge(left, mid, right) on workingArray
Merge(st, left, mid, right) ==
    LET L  == SubSeq(st.arr, left + 1, mid + 1)
        R  == SubSeq(st.arr, mid + 2, right + 1)
        s0 == Append(st.steps, CreateStep("merge", <<left, right>>, st.arr, FALSE))
    IN MergeLoop([arr |-> st.arr, steps |-> s0], L, R, 0, 0, left, left, mid)

RECURSIVE MergeSortRecursive(_, _, _)
MergeSortRecursive(st, left, right) ==
    IF left >= right THEN st
    ELSE LET mid == left + ((right - left) \div 2)
             s0  == [st EXCEPT !.steps =
                        Append(st.steps, CreateStep("divide", <<left, right>>, st.arr, FALSE))]
             s1  == MergeSortRecursive(s0, left, mid)
             s2  == MergeSortRecursive(s1, mid + 1, right)
         IN Merge(s2, left, mid, right)

\* variant of MergeSort.generateSteps whose final sorted marks snapshot the
\* input array instead of the working array
MergeGenerateStepsMarksInput(inputArray) ==
    LET r == MergeSortRecursive([arr |-> inputArray, steps |-> <<>>],
                                0, Len(inputArray) - 1)
    IN SortedMarks(r.steps, inputArray, 0, Len(r.arr) - 1)

MergeGenerateSteps(inputArray) ==
    LET r == MergeSortRecursive([arr |-> inputArray, steps |-> <<>>],
                                0, Len(inputArray) - 1)
    IN SortedMarks(r.steps, r.arr, 0, Len(r.arr) - 1)

\* ------------------------------------------------------------- quick sort
\* variant of the test of partition() that also moves elements equal to the
\* pivot to the left
BelowPivotOrEqual(arr, j, pivot) == Get(arr, j) <= pivot

\* the test of partition(): arr[j] < pivot
BelowPivot(arr, j, pivot) == Get(arr, j) < pivot

\* the scan of partition(): for (j = low; j < high; j++)
RECURSIVE PartitionScan(_, _, _, _)
PartitionScan(st, j, high, pivot) ==
    IF j >= high THEN st
    ELSE LET s1 == Append(st.steps, CreateStep("compare", <<j, high>>, st.arr, FALSE))
         IN IF BelowPivot(st.arr, j, pivot)
            THEN LET i == st.i + 1
                 IN IF i # j
                    THEN PartitionScan([arr   |-> Swap(st.arr, i, j),
                                        steps |-> Append(s1, CreateStep("swap", <<i, j>>, st.arr, TRUE)),
                                        i     |-> i], j + 1, high, pivot)
                    ELSE PartitionScan([arr   |-> st.arr,
                                        steps |-> Append(s1, CreateStep("select", <<i>>, st.arr, FALSE)),
                                        i     |-> i], j + 1, high, pivot)
            ELSE PartitionScan([st EXCEPT !.steps = s1], j + 1, high, pivot)

\* variant of partition() whose pivot-placement swap step records the low end
\* of the range instead of the pivot's final position
PartitionRecordsLow(st, low, high) ==
    LET pivot == Get(st.arr, high)
        s0    == Append(st.steps, CreateStep("pivot", <<high>>, st.arr, FALSE))
        r     == PartitionScan([arr |-> st.arr, steps |-> s0, i |-> low - 1], low, high, pivot)
        pivotFinalPos == r.i + 1
    IN IF pivotFinalPos # high
       THEN [arr   |-> Swap(r.arr, pivotFinalPos, high),
             steps |-> Append(r.steps, CreateStep("swap", <<low, high>>, r.arr, TRUE)),
             pivotIndex |-> pivotFinalPos]
       ELSE [arr |-> r.arr, steps |-> r.steps, pivotIndex |-> pivotFinalPos]

\* partition(arr, low, high): returns the array, the steps and the pivot's final position
Partition(st, low, high) ==
    LET pivot == Get(st.arr, high)
        s0    == Append(st.steps, CreateStep("pivot", <<high>>, st.arr, FALSE))
        r     == PartitionScan([arr |-> st.arr, steps |-> s0, i |-> low - 1], low, high, pivot)
        pivotFinalPos == r.i + 1
    IN IF pivotFinalPos # high
       THEN [arr   |-> Swap(r.arr, pivotFinalPos, high),
             steps |-> Append(r.steps, CreateStep("swap", <<pivotFinalPos, high>>, r.arr, TRUE)),
             pivotIndex |-> pivotFinalPos]
       ELSE [arr |-> r.arr, steps |-> r.steps, pivotIndex |-> pivotFinalPos]

RECURSIVE QuickSortRecursive(_, _, _)
QuickSortRecursive(st, low, high) ==
    IF low >= high
    THEN IF low = high
         THEN [st EXCEPT !.steps = Append(st.steps, CreateStep("sorted", <<low>>, st.arr, FALSE))]
         ELSE st
    ELSE LET s0 == [st EXCEPT !.steps =
                       Append(st.steps, CreateStep("divide", <<low, high>>, st.arr, FALSE))]
             p  == Partition(s0, low, high)
             s1 == [arr   |-> p.arr,
                    steps |-> Append(p.steps, CreateStep("sorted", <<p.pivotIndex>>, p.arr, FALSE))]
             s2 == QuickSortRecursive(s1, low, p.pivotIndex - 1)
         IN QuickSortRecursive(s2, p.pivotIndex + 1, high)

QuickGenerateSteps(inputArray) ==
    LET r == QuickSortRecursive([arr |-> inputArray, steps |-> <<>>],
                                0, Len(inputArray) - 1)
    IN SortedMarks(r.steps, r.arr, 0, Len(r.arr) - 1)

\* -------------------------------------------------------------- heap sort
RECURSIVE Heapify(_, _, _)
Heapify(st, n, i) ==
    LET left  == 2 * i + 1
        right == 2 * i + 2
        s1 == IF left < n
              THEN Append(st.steps, CreateStep("compare", <<i, left>>, st.arr, FALSE))
              ELSE st.steps
        l1 == IF left < n /\ Get(st.arr, left) > Get(st.arr, i) THEN left ELSE i
        s2 == IF right < n
              THEN Append(s1, CreateStep("compare", <<l1, right>>, st.arr, FALSE))
              ELSE s1
        largest == IF right < n /\ Get(st.arr, right) > Get(st.arr, l1) THEN right ELSE l1
    IN IF largest # i
       THEN Heapify([arr   |-> Swap(st.arr, i, largest),
                     steps |-> Append(s2, CreateStep("swap", <<i, largest>>, st.arr, TRUE))],
                    n, largest)
       ELSE [arr |-> st.arr, steps |-> s2]

\* build phase: for (i = floor(n / 2) - 1; i >= 0; i--)
RECURSIVE HeapBuild(_, _, _)
\* variant of the build phase whose loop stops before the root (i > 0)
HeapBuildSkipsRoot(st, n, i) ==
    IF i < 1 \/ Len(st.arr) # n THEN st
    ELSE HeapBuild(Heapify(st, n, i), n, i - 1)

HeapBuild(st, n, i) ==
    IF i < 0 \/ Len(st.arr) # n THEN st    \* n is arr.length throughout
    ELSE HeapBuild(Heapify(st, n, i), n, i - 1)

\* extraction phase: for (i = n - 1; i > 0; i--)
RECURSIVE HeapExtract(_, _)
HeapExtract(st, i) ==
    IF i <= 0 \/ i >= Len(st.arr) THEN st    \* i < arr.length throughout
    ELSE LET s1 == Append(st.steps, CreateStep("swap", <<0, i>>, st.arr, TRUE))
             a1 == Swap(st.arr, 0, i)
             s2 == Append(s1, CreateStep("sorted", <<i>>, a1, FALSE))
         IN HeapExtract(Heapify([arr |-> a1, steps |-> s2], i, 0), i - 1)

\* variant of HeapSort.generateSteps whose final sorted mark snapshots the
\* input array instead of the sorted array
HeapGenerateStepsMarksInput(inputArray) ==
    LET n  == Len(inputArray)
        s0 == <<CreateStep("divide", <<>>, inputArray, FALSE)>>
        b  == HeapBuild([arr |-> inputArray, steps |-> s0], n, (n \div 2) - 1)
        e  == HeapExtract(b, n - 1)
    IN Append(e.steps, CreateStep("sorted", <<0>>, inputArray, FALSE))

HeapGenerateSteps(inputArray) ==
    LET n  == Len(inputArray)
        s0 == <<CreateStep("divide", <<>>, inputArray, FALSE)>>
        b  == HeapBuild([arr |-> inputArray, steps |-> s0], n, (n \div 2) - 1)
        e  == HeapExtract(b, n - 1)
    IN Append(e.steps, CreateStep("sorted", <<0>>, e.arr, FALSE))

\* generateSteps of the engine registered under key a
GenerateSteps(a, inputArray) ==
    CASE a = "bubble"    -> BubbleGenerateSteps(inputArray)
      [] a = "selection" -> SelectionGenerateSteps(inputArray)
      [] a = "insertion" -> InsertionGenerateSteps(inputArray)
      [] a = "merge"     -> MergeGenerateSteps(inputArray)
      [] a = "quick"     -> QuickGenerateSteps(inputArray)
      [] a = "heap"      -> HeapGenerateSteps(inputArray)

\* ------------------------------------------------------------ validateMove
\* variant of the sort with the comparator (a, b) => b - a
SortIndicesDescending(ix) ==
    IF Len(ix) = 2 /\ ix[1] < ix[2] THEN <<ix[2], ix[1]>> ELSE ix

\* Array.prototype.sort((a, b) => a - b) on an index list of at most two entries
SortIndices(ix) ==
    IF Len(ix) = 2 /\ ix[1] > ix[2] THEN <<ix[2], ix[1]>> ELSE ix

\* variant of the swap validateMove that compares the user's indices in the
\* order given, without sorting them
SwapValidateMoveOrdered(stepList, stepIndex, userAction) ==
    IF stepIndex < 0 \/ stepIndex >= Len(stepList)
    THEN [valid |-> FALSE, message |-> "invalid-step", steps |-> stepList]
    ELSE LET step == stepList[stepIndex + 1]
         IN IF ~step.isUserAction
            THEN [valid |-> FALSE, message |-> "no-action", steps |-> stepList]
            ELSE IF userAction.type # "swap"
            THEN [valid |-> FALSE, message |-> "wrong-type", steps |-> stepList]
            ELSE LET expectedIndices == SortIndices(step.indices)
                     userIndices     == userAction.indices
                     sorted == [stepList EXCEPT ![stepIndex + 1].indices = expectedIndices]
                 IN IF Get(expectedIndices, 0) = Get(userIndices, 0)
                       /\ Get(expectedIndices, 1) = Get(userIndices, 1)
                    THEN [valid |-> TRUE, message |-> "correct", steps |-> sorted]
                    ELSE [valid |-> FALSE, message |-> "incorrect", steps |-> sorted]

\* validateMove of BubbleSort, SelectionSort, InsertionSort, QuickSort and
\* HeapSort (the five bodies differ in the message text only).  The expected
\* indices are sorted in place, so the step list is part of the result.
SwapValidateMove(stepList, stepIndex, userAction) ==
    IF stepIndex < 0 \/ stepIndex >= Len(stepList)
    THEN [valid |-> FALSE, message |-> "invalid-step", steps |-> stepList]
    ELSE LET step == stepList[stepIndex + 1]
         IN IF ~step.isUserAction
            THEN [valid |-> FALSE, message |-> "no-action", steps |-> stepList]
            ELSE IF userAction.type # "swap"
            THEN [valid |-> FALSE, message |-> "wrong-type", steps |-> stepList]
            ELSE LET expectedIndices == SortIndices(step.indices)
                     userIndices     == SortIndices(userAction.indices)
                     sorted == [stepList EXCEPT ![stepIndex + 1].indices = expectedIndices]
                 IN IF Get(expectedIndices, 0) = Get(userIndices, 0)
                       /\ Get(expectedIndices, 1) = Get(userIndices, 1)
                    THEN [valid |-> TRUE, message |-> "correct", steps |-> sorted]
                    ELSE [valid |-> FALSE, message |-> "incorrect", steps |-> sorted]

\* MergeSort.validateMove: select by value against the step's first recorded value
MergeValidateMove(stepList, stepIndex, userAction) ==
    IF stepIndex < 0 \/ stepIndex >= Len(stepList)
    THEN [valid |-> FALSE, message |-> "invalid-step", steps |-> stepList]
    ELSE LET step == stepList[stepIndex + 1]
         IN IF ~step.isUserAction
            THEN [valid |-> FALSE, message |-> "no-action", steps |-> stepList]
            ELSE IF userAction.type # "select"
            THEN [valid |-> FALSE, message |-> "wrong-type", steps |-> stepList]
            ELSE LET expectedValue == Get(step.values, 0)
                 IN IF userAction.value = expectedValue
                    THEN [valid |-> TRUE, message |-> "correct", steps |-> stepList]
                    ELSE [valid |-> FALSE, message |-> "incorrect", steps |-> stepList]

ValidateMove(a, stepList, stepIndex, userAction) ==
    IF a = "merge" THEN MergeValidateMove(stepList, stepIndex, userAction)
    ELSE SwapValidateMove(stepList, stepIndex, userAction)

\* user actions as the application builds them: {type: 'swap', indices: [i, j]}
\* or {type: 'select', value: v}
SwapAction(i, j) == [type |-> "swap", indices |-> <<i, j>>, value |-> Undefined]
SelectAction(v) == [type |-> "select", indices |-> <<>>, value |-> v]

Range(seq) == {seq[k] : k \in 1..Len(seq)}

\* the actions tried on an array: every index pair, every value of the array
\* and one value that is not in it
UserActions(arr) ==
    {SwapAction(i, j) : i, j \in 0..(Len(arr) - 1)}
      \cup {SelectAction(v) : v \in Range(arr) \cup {0}}

\* ----------------------------------------------------- GameManager tables
\* this.difficulties; bonus is kept in tenths (1.0, 1.5, 2.0, 3.0)
Difficulties ==
    [easy   |-> [size |-> 5,  bonus10 |-> 10],
     medium |-> [size |-> 8,  bonus10 |-> 15],
     hard   |-> [size |-> 12, bonus10 |-> 20],
     expert |-> [size |-> 16, bonus10 |-> 30]]

DifficultyKeys == {"easy", "medium", "hard", "expert"}

InputTypes == {"random", "reversed", "nearlySorted", "duplicates"}

\* Math.round(num / den) for num >= 0, den > 0
RoundDiv(num, den) == (2 * num + den) \div (2 * den)

Max(a, b) == IF a >= b THEN a ELSE b

\* ---------------------------------------------------------- generateArray
\* Math.random() is modelled by a stream: the call number k (0, 1, 2, ...)
\* returns stream.even / stream.den for even k and stream.odd / stream.den for
\* odd k
RandomStreams == [even : 0..(RandDen - 1), odd : 0..(RandDen - 1), den : {RandDen}]

\* Math.floor(Math.random() * m) at call number k
RandomIndex(stream, k, m) ==
    ((IF k % 2 = 0 THEN stream.even ELSE stream.odd) * m) \div stream.den

\* Fisher-Yates: for (i = hi; i >= lo; i--) swap(i, floor(random * (i + 1)));
\* k is the number of the Math.random() call of iteration hi.  The iterations
\* hi..lo are done as hi..mid followed by mid-1..lo, which keeps the nesting
\* of the evaluation logarithmic in the length of the loop.
RECURSIVE FisherYates(_, _, _, _, _)
FisherYates(arr, hi, lo, stream, k) ==
    IF hi < lo \/ hi >= Len(arr) THEN arr
    ELSE IF hi = lo THEN Swap(arr, hi, RandomIndex(stream, k, hi + 1))
    ELSE LET mid == (hi + lo + 1) \div 2
         IN FisherYates(FisherYates(arr, hi, mid, stream, k),
                        mid - 1, lo, stream, k + (hi - mid + 1))

\* shuffleArray(arr): the loop runs for i = length - 1 down to 1
ShuffleArray(arr, stream, k) == FisherYates(arr, Len(arr) - 1, 1, stream, k)

\* the swap loop of case 'nearlySorted'
RECURSIVE NearlySortedSwaps(_, _, _, _, _)
NearlySortedSwaps(arr, i, swapCount, size, stream) ==
    IF i >= swapCount THEN arr
    ELSE NearlySortedSwaps(Swap(arr, RandomIndex(stream, 2 * i, size),
                                     RandomIndex(stream, 2 * i + 1, size)),
                           i + 1, swapCount, size, stream)

\* variant of generateArray whose random case draws each value on its own
GenerateArrayIndependent(difficulty, inputType, stream) ==
    LET size     == Difficulties[difficulty].size
        maxValue == size * 10
    IN CASE inputType = "reversed" ->
              [k \in 1..size |-> (size - k + 1) * 10]
         [] inputType = "nearlySorted" ->
              NearlySortedSwaps([k \in 1..size |-> k * 10], 0,
                                Max(1, size \div 4), size, stream)
         [] inputType = "duplicates" ->
              LET uniqueValues == (size + 1) \div 2
                  arr == [k \in 1..size |->
                            (RandomIndex(stream, k - 1, uniqueValues) + 1) * 10]
              IN ShuffleArray(arr, stream, size)
         [] OTHER ->
              [k \in 1..size |-> RandomIndex(stream, k - 1, maxValue) + 1]

GenerateArray(difficulty, inputType, stream) ==
    LET size     == Difficulties[difficulty].size
        maxValue == size * 10
    IN CASE inputType = "reversed" ->
              [k \in 1..size |-> (size - k + 1) * 10]
         [] inputType = "nearlySorted" ->
              NearlySortedSwaps([k \in 1..size |-> k * 10], 0,
                                Max(1, size \div 4), size, stream)
         [] inputType = "duplicates" ->
              LET uniqueValues == (size + 1) \div 2
                  arr == [k \in 1..size |->
                            (RandomIndex(stream, k - 1, uniqueValues) + 1) * 10]
              IN ShuffleArray(arr, stream, size)
         [] OTHER ->
              SubSeq(FisherYates([k \in 1..maxValue |-> k], maxValue - 1, 1, stream, 0),
                     1, size)

\* ------------------------------------------------------------------- state
VARIABLES
    inputArray,        \* the array handed to the latest generateSteps call
    engine,            \* the engine that caller used, "none" before the call
    engineSteps,       \* this.steps of the engine instance in use; an engine that is
                       \* not in use is read only after its generateSteps has reset it
    validation,        \* the last value returned by a direct validateMove call
    currentAlgorithm,  \* key of this.currentAlgorithm, "null" when unset
    currentArray,
    originalArray,
    steps,
    currentStepIndex,
    score,
    correctMoves,
    incorrectMoves,
    streak,
    maxStreak,
    startTime,         \* NoTime (null), or 0: the time origin of the session
    endTime,           \* NoTime (null), or the milliseconds elapsed at completion
    difficulty,
    inputType,
    isGameActive,
    isGameComplete,
    result,            \* the value returned by the last GameManager call
    results,           \* the value of getResults() the last endGame() call used
    grade,             \* the grade letter calculateGrade returned, "none" before
    stats,             \* the player statistics kept in storage under 'stats'
    achievements,      \* the ids kept in storage under 'achievements'
    newAchievements,   \* the ids the last checkAchievements call returned
    animatorSteps,     \* this.steps of the Animator
    currentStep,
    isPlaying,
    isPaused,
    playLoops,         \* the number of play() calls in flight at each await point
    stepForwards,      \* the number of stepForward() calls awaiting executeStep
    executed,          \* the step indices executeStep was called with, in order
    completeCalls,     \* the number of calls of the completion callback
    isDemoPlaying      \* App.isDemoPlaying

engineVars == <<inputArray, engine, engineSteps, validation>>

gameVars == <<currentAlgorithm, currentArray, originalArray, steps, currentStepIndex,
              score, correctMoves, incorrectMoves, streak, maxStreak, startTime,
              endTime, difficulty, inputType, isGameActive, isGameComplete, result>>

scoringVars == <<results, grade, stats, achievements, newAchievements>>

animatorVars == <<animatorSteps, currentStep, isPlaying, isPaused, playLoops,
                  stepForwards, executed, completeCalls, isDemoPlaying>>

vars == <<inputArray, engine, engineSteps, validation, currentAlgorithm, currentArray,
          originalArray, steps, currentStepIndex, score, correctMoves, incorrectMoves,
          streak, maxStreak, startTime, endTime, difficulty, inputType, isGameActive,
          isGameComplete, result, results, grade, stats, achievements,
          newAchievements, animatorSteps, currentStep, isPlaying, isPaused,
          playLoops, stepForwards, executed, completeCalls, isDemoPlaying>>

NoValidation == [valid |-> FALSE, message |-> "none"]

\* the success flag of the value a GameManager call returns
NoResult == [success |-> FALSE]

Success == [success |-> TRUE]

\* all arrays of length 0..MaxLen over 1..MaxVal
Arrays == UNION {[1..n -> 1..MaxVal] : n \in 0..MaxLen}

\* this.steps of a newly constructed engine
FreshEngines == <<>>

\* ------------------------------------------------- ScoringSystem and Storage
\* config.difficultyMultipliers, in tenths
DifficultyMultipliers10 == [easy |-> 10, medium |-> 15, hard |-> 20, expert |-> 30]

\* the grades table of calculateGrade, in its order
Grades ==
    << [min |-> 1500, grade |-> "S"], [min |-> 1200, grade |-> "A"],
       [min |-> 900, grade |-> "B"], [min |-> 600, grade |-> "C"],
       [min |-> 300, grade |-> "D"], [min |-> 0, grade |-> "F"] >>

\* variant of calculateGrade that wants the adjusted score above the threshold
CalculateGradeStrict(finalScore, difficultyKey) ==
    LET multiplier10 == IF difficultyKey \in DOMAIN DifficultyMultipliers10
                        THEN DifficultyMultipliers10[difficultyKey]
                        ELSE 10
        reached == {k \in 1..Len(Grades) : 10 * finalScore > Grades[k].min * multiplier10}
    IN IF reached = {}
       THEN Grades[Len(Grades)].grade
       ELSE Grades[CHOOSE k \in reached : \A m \in reached : k <= m].grade

\* calculateGrade(score, difficulty): adjustedScore = score / multiplier, the
\* first grade with adjustedScore >= min, and the last grade when there is none
CalculateGrade(finalScore, difficultyKey) ==
    LET multiplier10 == IF difficultyKey \in DOMAIN DifficultyMultipliers10
                        THEN DifficultyMultipliers10[difficultyKey]
                        ELSE 10
        reached == {k \in 1..Len(Grades) : 10 * finalScore >= Grades[k].min * multiplier10}
    IN IF reached = {}
       THEN Grades[Len(Grades)].grade
       ELSE Grades[CHOOSE k \in reached : \A m \in reached : k <= m].grade

\* the name each engine passes to the SortingAlgorithm constructor
EngineName ==
    [bubble |-> "Bubble Sort", selection |-> "Selection Sort",
     insertion |-> "Insertion Sort", merge |-> "Merge Sort",
     quick |-> "Quick Sort", heap |-> "Heap Sort"]

\* the name of each difficulty in the GameManager's table
DifficultyName == [easy |-> "Easy", medium |-> "Medium", hard |-> "Hard", expert |-> "Expert"]

\* name.toLowerCase().replace(' ', '_') of the six engine names
AlgoKey ==
    [bubble |-> "bubble_sort", selection |-> "selection_sort",
     insertion |-> "insertion_sort", merge |-> "merge_sort",
     quick |-> "quick_sort", heap |-> "heap_sort"]

\* fastestTime before any game is recorded (Infinity)
Infinity == -1

\* getStats() on an empty storage; times are in tenths of a second
DefaultStats ==
    [gamesCompleted |-> 0, totalScore |-> 0, perfectGames |-> 0,
     fastestTime |-> Infinity, maxStreak |-> 0, algorithmsUsed |-> {},
     algorithmGames |-> <<>>, hardGamesCompleted |-> 0, expertGamesCompleted |-> 0]

\* stats.algorithmGames[key] || 0
AlgorithmGames(st, key) ==
    IF key \in DOMAIN st.algorithmGames THEN st.algorithmGames[key] ELSE 0

\* updateStats(gameResults): the statistics stored and returned
UpdateStats(st, gameResults) ==
    LET algoKey == AlgoKey[gameResults.algorithm]
    IN [gamesCompleted |-> st.gamesCompleted + 1,
        totalScore |-> st.totalScore + gameResults.finalScore,
        perfectGames |-> IF gameResults.accuracy = 100
                         THEN st.perfectGames + 1
                         ELSE st.perfectGames,
        fastestTime |-> IF st.fastestTime = Infinity
                           \/ gameResults.timeTaken < st.fastestTime
                        THEN gameResults.timeTaken
                        ELSE st.fastestTime,
        maxStreak |-> IF gameResults.maxStreak > st.maxStreak
                      THEN gameResults.maxStreak
                      ELSE st.maxStreak,
        algorithmsUsed |-> st.algorithmsUsed \cup {EngineName[gameResults.algorithm]},
        algorithmGames |->
            [k \in DOMAIN st.algorithmGames \cup {algoKey} |->
                IF k = algoKey THEN AlgorithmGames(st, k) + 1 ELSE st.algorithmGames[k]],
        hardGamesCompleted |-> IF DifficultyName[gameResults.difficulty] = "Hard"
                               THEN st.hardGamesCompleted + 1
                               ELSE st.hardGamesCompleted,
        expertGamesCompleted |-> IF DifficultyName[gameResults.difficulty] = "Expert"
                                 THEN st.expertGamesCompleted + 1
                                 ELSE st.expertGamesCompleted]

\* the ids of the achievements catalog, in its order
AchievementIds ==
    << "first_sort", "perfect_game", "speed_demon", "streak_master",
       "algorithm_explorer", "bubble_master", "quick_professional",
       "challenge_accepted", "expert_level", "high_scorer" >>

\* the check function of each achievement of the catalog
AchievementCheck(id, st) ==
    CASE id = "first_sort" -> st.gamesCompleted >= 1
      [] id = "perfect_game" -> st.perfectGames >= 1
      [] id = "speed_demon" -> st.fastestTime # Infinity /\ st.fastestTime < 300
      [] id = "streak_master" -> st.maxStreak >= 10
      [] id = "algorithm_explorer" -> Cardinality(st.algorithmsUsed) >= 5
      [] id = "bubble_master" -> AlgorithmGames(st, "bubble") >= 5
      [] id = "quick_professional" -> AlgorithmGames(st, "quick") >= 5
      [] id = "challenge_accepted" -> st.hardGamesCompleted >= 1
      [] id = "expert_level" -> st.expertGamesCompleted >= 1
      [] id = "high_scorer" -> st.totalScore >= 10000

\* variant of checkAchievements that ignores the earned set
CheckAchievementsAll(st, earnedAchievements) ==
    LET Holds(id) == AchievementCheck(id, st)
    IN SelectSeq(AchievementIds, Holds)

\* checkAchievements(stats, earnedAchievements): the ids of the achievements
\* returned, in catalog order
CheckAchievements(st, earnedAchievements) ==
    LET IsNew(id) == id \notin earnedAchievements /\ AchievementCheck(id, st)
    IN SelectSeq(AchievementIds, IsNew)

\* getResults() of a session that is not complete (null)
NoResults == [algorithm |-> "null", difficulty |-> "easy", finalScore |-> 0,
              accuracy |-> 0, timeTaken |-> 0, maxStreak |-> 0]

\* the storage and the grade display before any game has ended
InitScoring ==
    /\ results = NoResults
    /\ grade = "none"
    /\ stats = DefaultStats
    /\ achievements = {}
    /\ newAchievements = <<>>

\* ---------------------------------------------------------------- Animator
\* the await points of a play() call in flight: the wait(100) of a paused
\* pass, executeStep, and the wait between two steps
LoopPcs == {"waitPaused", "executeStep", "wait"}

NoLoops == [pc \in LoopPcs |-> 0]

AddLoop(loops, pc) == [loops EXCEPT ![pc] = @ + 1]

RemoveLoop(loops, pc) == [loops EXCEPT ![pc] = @ - 1]

LoopCount(loops) == loops["waitPaused"] + loops["executeStep"] + loops["wait"]

\* new Animator(renderer), with the callbacks startDemo() sets
InitAnimator ==
    /\ animatorSteps = <<>>
    /\ currentStep = 0
    /\ isPlaying = FALSE
    /\ isPaused = FALSE
    /\ playLoops = NoLoops
    /\ stepForwards = 0
    /\ executed = <<>>
    /\ completeCalls = 0
    /\ isDemoPlaying = FALSE

\* GameManager.reset(): the values of the session fields after a reset
ResetState ==
    /\ currentAlgorithm = "null"
    /\ currentArray = <<>>
    /\ originalArray = <<>>
    /\ steps = <<>>
    /\ currentStepIndex = 0
    /\ score = 0
    /\ correctMoves = 0
    /\ incorrectMoves = 0
    /\ streak = 0
    /\ maxStreak = 0
    /\ startTime = NoTime
    /\ endTime = NoTime
    /\ difficulty = "easy"
    /\ inputType = "random"
    /\ isGameActive = FALSE
    /\ isGameComplete = FALSE

\* variant of reset() that keeps the steps of the earlier run
ResetKeepsSteps(stepList) == stepList

\* reset() of an engine, the first statement of every generateSteps():
\* this.steps = []
EngineReset(stepList) == <<>>

\* ---------------------------------------------- engines called on any array
InitEngine ==
    /\ inputArray \in Arrays
    /\ engine = "none"
    /\ engineSteps = FreshEngines
    /\ validation = NoValidation
    /\ ResetState
    /\ result = NoResult
    /\ InitScoring
    /\ InitAnimator

\* engine.generateSteps(inputArray) on a fresh instance
EngineGenerateSteps(a) ==
    /\ engine = "none"
    /\ engine' = a
    /\ engineSteps' = EngineReset(engineSteps) \o GenerateSteps(a, inputArray)
    /\ UNCHANGED <<inputArray, validation>>
    /\ UNCHANGED scoringVars
    /\ UNCHANGED animatorVars
    /\ UNCHANGED gameVars

\* engine.validateMove(stepIndex, userAction); one call is recorded per trace
\* (a call changes nothing that a later call reads)
EngineValidateMove(stepIndex, userAction) ==
    /\ engine # "none"
    /\ validation = NoValidation
    /\ LET r == ValidateMove(engine, engineSteps, stepIndex, userAction)
       IN /\ validation' = [valid |-> r.valid, message |-> r.message]
          /\ engineSteps' = r.steps
    /\ UNCHANGED <<inputArray, engine>>
    /\ UNCHANGED scoringVars
    /\ UNCHANGED animatorVars
    /\ UNCHANGED gameVars

NextEngine ==
    \/ \E a \in Algs : EngineGenerateSteps(a)
    \/ /\ engine # "none"
       /\ \E stepIndex \in -1..Len(engineSteps),
             userAction \in UserActions(inputArray) :
               EngineValidateMove(stepIndex, userAction)

SpecEngine == InitEngine /\ [][NextEngine]_vars

\* ------------------------------------------------------------ GameManager
UserActionCount(stepList) ==
    Cardinality({k \in 1..Len(stepList) : stepList[k].isUserAction})

\* variant of getOptimalSwapCount() that counts the user-action steps
GetOptimalSwapCountUserActions(stepList) ==
    Cardinality({k \in 1..Len(stepList) : stepList[k].isUserAction})

\* getOptimalSwapCount() on an engine whose this.steps is stepList
GetOptimalSwapCount(stepList) ==
    Cardinality({k \in 1..Len(stepList) : stepList[k].type = "swap"})

\* the games startGame(algorithmKey, difficulty, inputType) can set up: for
\* some stream of Math.random() results, the array generateArray returns and
\* the trace of the chosen engine on a copy of it.  Sessions are played when
\* the trace has at most MaxUserActions user-action steps.
Games ==
    UNION {LET arr == GenerateArray(d, t, s)
               st  == GenerateSteps(a, arr)
           IN IF UserActionCount(st) <= MaxUserActions
              THEN {[algorithmKey |-> a, difficulty |-> d, inputType |-> t,
                     array |-> arr, steps |-> st]}
              ELSE {} :
             a \in Algs, d \in DifficultyKeys, t \in InputTypes, s \in RandomStreams}

\* variant of advanceToNextUserAction() whose loop does not test the step at
\* `index` and so can pass over a user-action step
AdvancePassingOne(stepList, index, array) ==
    LET from == index + 1
        stop == CHOOSE k \in from..Max(from, Len(stepList)) :
                   /\ k >= Len(stepList) \/ stepList[k + 1].isUserAction
                   /\ \A m \in from..(k - 1) :
                         m < Len(stepList) /\ ~stepList[m + 1].isUserAction
    IN [index |-> stop,
        array |-> IF stop <= Len(stepList) THEN stepList[stop].arrayState ELSE array]

\* advanceToNextUserAction(): the loop stops at the first index from `index` on
\* that is the trace length or holds a user-action step; the array is the
\* snapshot of the last step passed over, if any
AdvanceToNextUserAction(stepList, index, array) ==
    LET stop == CHOOSE k \in index..Max(index, Len(stepList)) :
                   /\ k >= Len(stepList) \/ stepList[k + 1].isUserAction
                   /\ \A m \in index..(k - 1) :
                         m < Len(stepList) /\ ~stepList[m + 1].isUserAction
    IN [index |-> stop,
        array |-> IF stop > index THEN stepList[stop].arrayState ELSE array]

\* the time bonus of completeGame() for elapsed milliseconds on a trace of n steps
TimeBonus(elapsed, n) ==
    IF elapsed < n * 2000
    THEN RoundDiv(200 * (n * 2000 - elapsed), n * 2000)
    ELSE 0

\* variant of the accuracy bonus with two independent tests, so that a
\* perfect game earns the 150 and the 100
AccuracyBonusBoth(correct, incorrect) ==
    (IF correct + incorrect > 0 /\ incorrect = 0 THEN 150 ELSE 0)
    + (IF correct + incorrect > 0 /\ 10 * correct >= 9 * (correct + incorrect)
       THEN 100 ELSE 0)

\* the accuracy bonus of completeGame(); 0 / 0 is NaN and earns nothing
AccuracyBonus(correct, incorrect) ==
    IF correct + incorrect > 0 /\ incorrect = 0 THEN 150
    ELSE IF correct + incorrect > 0 /\ 10 * correct >= 9 * (correct + incorrect) THEN 100
    ELSE 0

\* the values Date.now() - startTime tried at completion: 0, 1, ... halves of
\* the optimal time (2 seconds a step)
ElapsedTimes == {h * Len(steps) * 1000 : h \in 0..MaxElapsed}

\* completeGame(); newScore, newCorrect are the values the caller has just
\* assigned to score and correctMoves
CompleteGame(newScore, newCorrect) ==
    \E elapsed \in ElapsedTimes :
        /\ endTime' = startTime + elapsed
        /\ isGameActive' = FALSE
        /\ isGameComplete' = TRUE
        /\ score' = newScore + TimeBonus(elapsed, Len(steps))
                             + AccuracyBonus(newCorrect, incorrectMoves)

InitGame ==
    /\ inputArray = <<>>
    /\ engine = "none"
    /\ engineSteps = FreshEngines
    /\ validation = NoValidation
    /\ ResetState
    /\ result = NoResult
    /\ InitScoring
    /\ InitAnimator

\* reset(), as exitGame() calls it
Reset ==
    /\ currentAlgorithm' = "null"
    /\ currentArray' = <<>>
    /\ originalArray' = <<>>
    /\ steps' = <<>>
    /\ currentStepIndex' = 0
    /\ score' = 0
    /\ correctMoves' = 0
    /\ incorrectMoves' = 0
    /\ streak' = 0
    /\ maxStreak' = 0
    /\ startTime' = NoTime
    /\ endTime' = NoTime
    /\ difficulty' = "easy"
    /\ inputType' = "random"
    /\ isGameActive' = FALSE
    /\ isGameComplete' = FALSE
    /\ result' = Success
    /\ UNCHANGED engineVars
    /\ UNCHANGED scoringVars
    /\ UNCHANGED animatorVars

\* startGame(algorithmKey, difficulty, inputType), called when no game is in
\* progress: from the explanation screen with any selection, or by playAgain
\* on the results screen with the selection of the game just played.  It
\* starts with reset(), so nothing of the earlier state is read.
StartGame(g) ==
    /\ ~isGameActive
    /\ isGameComplete =>
          /\ g.algorithmKey = currentAlgorithm
          /\ g.difficulty = difficulty
          /\ g.inputType = inputType
    /\ LET adv == AdvanceToNextUserAction(g.steps, 0, g.array)
       IN /\ currentAlgorithm' = g.algorithmKey
          /\ difficulty' = g.difficulty
          /\ inputType' = g.inputType
          /\ originalArray' = g.array
          \* generateSteps([...this.originalArray]) returns the engine's this.steps
          /\ inputArray' = g.array
          /\ engineSteps' = EngineReset(engineSteps) \o g.steps
          /\ steps' = EngineReset(engineSteps) \o g.steps
          /\ currentStepIndex' = adv.index
          /\ currentArray' = adv.array
    /\ score' = 0
    /\ correctMoves' = 0
    /\ incorrectMoves' = 0
    /\ streak' = 0
    /\ maxStreak' = 0
    /\ startTime' = 0
    /\ endTime' = NoTime
    /\ isGameActive' = TRUE
    /\ isGameComplete' = FALSE
    /\ result' = Success
    /\ UNCHANGED <<engine, validation>>
    /\ UNCHANGED scoringVars
    /\ UNCHANGED animatorVars

\* the user actions tried on a session: swaps over the indices of the pending
\* step and position 0; selections of the values the pending step records, of
\* the values now at its positions, and of 0 (which is in no array)
SessionActions ==
    LET pending == IF currentStepIndex < Len(steps)
                   THEN steps[currentStepIndex + 1].indices ELSE <<>>
        ix      == Range(pending) \cup {0}
    IN {SwapAction(i, j) : i, j \in ix}
         \cup {SelectAction(v) : v \in Range(MapGet(currentArray, pending)) \cup {0}
                                        \cup (IF pending = <<>> THEN {}
                                              ELSE Range(steps[currentStepIndex + 1].values))}

\* variant of the points of a correct move that decides streakBonus on the
\* streak before its increment
MovePointsStreakBefore(newStreak, difficultyKey) ==
    LET streakBonus == IF newStreak - 1 >= 5 THEN 50 ELSE 0
    IN RoundDiv((100 + streakBonus) * Difficulties[difficultyKey].bonus10, 10)

\* the points of a correct move: streakBonus is decided on the streak after
\* its increment; points = Math.round((100 + streakBonus) * difficultyBonus)
MovePoints(newStreak, difficultyKey) ==
    LET streakBonus == IF newStreak >= 5 THEN 50 ELSE 0
    IN RoundDiv((100 + streakBonus) * Difficulties[difficultyKey].bonus10, 10)

\* variant of the penalty without the floor at 0
PenaltyUnfloored(oldScore) == oldScore - 50

\* the score after the penalty of an invalid move: Math.max(0, score - 50)
Penalty(oldScore) == Max(0, oldScore - 50)

\* variant of the guard that refuses a call only before a game was started
NotActiveIdleOnly == ~isGameActive /\ ~isGameComplete

\* the guard of processMove() and skipStep(): !isGameActive || isGameComplete
NotActive == ~isGameActive \/ isGameComplete

\* processMove(userAction)
ProcessMove(userAction) ==
    IF NotActive
    THEN /\ result' = NoResult
         /\ UNCHANGED <<currentAlgorithm, currentArray, originalArray, steps,
                        currentStepIndex, score, correctMoves, incorrectMoves, streak,
                        maxStreak, startTime, endTime, difficulty, inputType,
                        isGameActive, isGameComplete>>
         /\ UNCHANGED engineVars
         /\ UNCHANGED scoringVars
         /\ UNCHANGED animatorVars
    ELSE IF currentStepIndex >= Len(steps) \/ ~steps[currentStepIndex + 1].isUserAction
    THEN /\ result' = NoResult
         /\ UNCHANGED <<currentAlgorithm, currentArray, originalArray, steps,
                        currentStepIndex, score, correctMoves, incorrectMoves, streak,
                        maxStreak, startTime, endTime, difficulty, inputType,
                        isGameActive, isGameComplete>>
         /\ UNCHANGED engineVars
         /\ UNCHANGED scoringVars
         /\ UNCHANGED animatorVars
    ELSE LET v == ValidateMove(currentAlgorithm, engineSteps, currentStepIndex, userAction)
             \* the session's trace is the array generateSteps returned: it is
             \* the engine's this.steps until the engine generates again
             newSteps == IF steps = engineSteps THEN v.steps ELSE steps
         IN /\ IF v.valid
               THEN LET newStreak == streak + 1
                        points == MovePoints(newStreak, difficulty)
                        applied == IF userAction.type = "swap"
                                   THEN Swap(currentArray, userAction.indices[1],
                                             userAction.indices[2])
                                   ELSE currentArray
                        adv == AdvanceToNextUserAction(newSteps, currentStepIndex + 1, applied)
                    IN /\ correctMoves' = correctMoves + 1
                       /\ streak' = newStreak
                       /\ maxStreak' = Max(maxStreak, newStreak)
                       /\ currentArray' = adv.array
                       /\ currentStepIndex' = adv.index
                       /\ UNCHANGED incorrectMoves
                       /\ IF adv.index >= Len(newSteps)
                          THEN CompleteGame(score + points, correctMoves + 1)
                          ELSE /\ score' = score + points
                               /\ UNCHANGED <<endTime, isGameActive, isGameComplete>>
                       /\ result' = Success
               ELSE /\ incorrectMoves < MaxIncorrect
                    /\ incorrectMoves' = incorrectMoves + 1
                    /\ streak' = 0
                    /\ score' = Penalty(score)
                    /\ UNCHANGED <<currentArray, currentStepIndex, correctMoves, maxStreak,
                                   endTime, isGameActive, isGameComplete>>
                    /\ result' = Success
            \* validateMove sorts the indices of the engine's step in place
            /\ engineSteps' = v.steps
            /\ steps' = newSteps
            /\ UNCHANGED <<inputArray, engine, validation>>
            /\ UNCHANGED scoringVars
            /\ UNCHANGED animatorVars
            /\ UNCHANGED <<currentAlgorithm, originalArray, startTime, difficulty, inputType>>

\* skipStep()
SkipStep ==
    IF NotActive
    THEN /\ result' = NoResult
         /\ UNCHANGED <<currentAlgorithm, currentArray, originalArray, steps,
                        currentStepIndex, score, correctMoves, incorrectMoves, streak,
                        maxStreak, startTime, endTime, difficulty, inputType,
                        isGameActive, isGameComplete>>
         /\ UNCHANGED engineVars
         /\ UNCHANGED scoringVars
         /\ UNCHANGED animatorVars
    ELSE LET atUserAction == currentStepIndex < Len(steps)
                             /\ steps[currentStepIndex + 1].isUserAction
             \* the swap is applied and then overwritten by the step's snapshot
             skipped == IF atUserAction
                        THEN steps[currentStepIndex + 1].arrayState
                        ELSE currentArray
             adv == AdvanceToNextUserAction(steps, currentStepIndex + 1, skipped)
         IN /\ currentArray' = adv.array
            /\ currentStepIndex' = adv.index
            /\ IF adv.index >= Len(steps)
               THEN CompleteGame(score, correctMoves)
               ELSE UNCHANGED <<score, endTime, isGameActive, isGameComplete>>
            /\ result' = Success
            /\ UNCHANGED <<currentAlgorithm, originalArray, steps, correctMoves,
                           incorrectMoves, streak, maxStreak, startTime, difficulty,
                           inputType>>
            /\ UNCHANGED engineVars
            /\ UNCHANGED scoringVars
            /\ UNCHANGED animatorVars

Next ==
    \/ Reset
    \/ \E g \in Games : StartGame(g)
    \/ \E userAction \in SessionActions : ProcessMove(userAction)
    \/ SkipStep

Spec == InitGame /\ [][Next]_vars

\* ------------------------------------------- a session with demo mode
\* the games played and shown where demo mode is used: those of the default
\* difficulty whose trace has at most MaxDemoUserActions user-action steps
DemoGames ==
    {g \in Games : g.difficulty = "easy"
                      /\ UserActionCount(g.steps) <= MaxDemoUserActions}

\* startDemo(): generateArray() and generateSteps() on the engine instance
\* of the selected algorithm, here the instance the session uses.  The engine
\* replaces its this.steps; the array the session holds is not touched.  A new
\* Animator is made and loaded with the trace; isDemoPlaying is not assigned.
StartDemo(g) ==
    /\ currentAlgorithm = g.algorithmKey
    /\ inputArray' = g.array
    /\ engineSteps' = EngineReset(engineSteps) \o g.steps
    /\ animatorSteps' = g.steps
    /\ currentStep' = 0
    /\ isPlaying' = FALSE
    /\ isPaused' = FALSE
    /\ playLoops' = NoLoops
    /\ stepForwards' = 0
    /\ executed' = <<>>
    /\ completeCalls' = 0
    /\ UNCHANGED isDemoPlaying
    /\ UNCHANGED <<engine, validation>>
    /\ UNCHANGED scoringVars
    /\ UNCHANGED gameVars

NextDemo ==
    \/ Reset
    \/ \E g \in DemoGames : StartGame(g)
    \/ \E userAction \in SessionActions : ProcessMove(userAction)
    \/ SkipStep
    \/ \E g \in DemoGames : StartDemo(g)

SpecDemo == InitGame /\ [][NextDemo]_vars

\* ------------------------------------------------ the end-of-game bonuses
\* variant of calculateGameBonuses() without the test bonuses.perfect === 0,
\* so that a perfect game earns the accuracy bonus as well
CalculateGameBonusesNoGuard(correct, incorrect, timeTaken) ==
    LET perfect == IF incorrect = 0 /\ correct > 0 THEN 150 ELSE 0
        accuracy == IF correct + incorrect > 0
                       /\ 10 * correct >= 9 * (correct + incorrect)
                    THEN 100 ELSE 0
        speed == IF correct > 0 /\ timeTaken < 20 * correct THEN 200 ELSE 0
    IN [perfect |-> perfect, accuracy |-> accuracy, speed |-> speed,
        total |-> perfect + accuracy + speed]

\* calculateGameBonuses(gameStats) on gameStats.correctMoves,
\* gameStats.incorrectMoves and gameStats.timeTaken in tenths of a second.
\* With no move the ratio is 0 / 0 = NaN, which fails >= 0.9; with no correct
\* move timeTaken / 0 is NaN or Infinity, which fails < 2.
CalculateGameBonuses(correct, incorrect, timeTaken) ==
    LET perfect == IF incorrect = 0 /\ correct > 0 THEN 150 ELSE 0
        accuracy == IF correct + incorrect > 0
                       /\ 10 * correct >= 9 * (correct + incorrect)
                       /\ perfect = 0
                    THEN 100 ELSE 0
        speed == IF correct > 0 /\ timeTaken < 20 * correct THEN 200 ELSE 0
    IN [perfect |-> perfect, accuracy |-> accuracy, speed |-> speed,
        total |-> perfect + accuracy + speed]

\* ------------------------------------------ the end of a game in the app
\* App.endGame() on the results of a completed session: updateStats,
\* checkAchievements on the stored ids, addAchievements, calculateGrade
EndGame(gameResults) ==
    LET updated == UpdateStats(stats, gameResults)
        new == CheckAchievements(updated, achievements)
    IN /\ results' = gameResults
       /\ stats' = updated
       /\ newAchievements' = new
       /\ achievements' = achievements \cup {new[k] : k \in 1..Len(new)}
       /\ grade' = CalculateGrade(gameResults.finalScore, gameResults.difficulty)
       /\ UNCHANGED engineVars
       /\ UNCHANGED gameVars
       /\ UNCHANGED animatorVars

\* results of one completed game with each final score and difficulty
GradeResults ==
    {[algorithm |-> "bubble", difficulty |-> d, finalScore |-> s, accuracy |-> 100,
      timeTaken |-> 300, maxStreak |-> 0] :
        d \in DifficultyKeys, s \in 0..MaxGradeScore}

NextGrade == stats.gamesCompleted = 0 /\ \E gameResults \in GradeResults : EndGame(gameResults)

SpecGrade == InitGame /\ [][NextGrade]_vars

\* results of completed games: each algorithm, played as an easy game with
\* mistakes, a perfect hard game with a long streak, or a fast expert game
GameResults ==
    {[algorithm |-> a, difficulty |-> p.difficulty, finalScore |-> p.finalScore,
      accuracy |-> p.accuracy, timeTaken |-> p.timeTaken, maxStreak |-> p.maxStreak] :
        a \in Algs,
        p \in {[difficulty |-> "easy", finalScore |-> 0, accuracy |-> 50,
                timeTaken |-> 300, maxStreak |-> 0],
               [difficulty |-> "hard", finalScore |-> 5000, accuracy |-> 100,
                timeTaken |-> 300, maxStreak |-> 10],
               [difficulty |-> "expert", finalScore |-> 5000, accuracy |-> 90,
                timeTaken |-> 299, maxStreak |-> 9]}}

\* ----------------------------- sessions played with accepted moves only
\* processMove(userAction) with an action validateMove accepts
AcceptedMove ==
    \E userAction \in SessionActions :
        ProcessMove(userAction) /\ correctMoves' = correctMoves + 1

NextPlay ==
    \/ \E g \in Games : StartGame(g)
    \/ AcceptedMove

\* the player keeps submitting an accepted action while there is one
SpecPlay == InitGame /\ [][NextPlay]_vars /\ WF_vars(AcceptedMove)

\* ------------------------------------- startGame over more random choices
\* streams of Math.random() results over the denominators 1..MaxArrayDen
ArrayStreams ==
    UNION {[even : 0..(den - 1), odd : 0..(den - 1), den : {den}] : den \in 1..MaxArrayDen}

\* the games startGame can set up with these streams
ArrayGames ==
    {LET arr == GenerateArray(d, t, s)
     IN [algorithmKey |-> a, difficulty |-> d, inputType |-> t,
         array |-> arr, steps |-> GenerateSteps(a, arr)] :
       a \in Algs, d \in DifficultyKeys, t \in InputTypes, s \in ArrayStreams}

NextArray == \E g \in ArrayGames : StartGame(g)

SpecArray == InitGame /\ [][NextArray]_vars

NextScoring ==
    stats.gamesCompleted < MaxGames /\ \E gameResults \in GameResults : EndGame(gameResults)

SpecScoring == InitGame /\ [][NextScoring]_vars

\* ================================================================ Animator
\* the traces loaded into the Animator: those of at most MaxAnimatorSteps
\* steps that an engine records for an array of at most two elements
AnimatorTraces ==
    {stepList \in {GenerateSteps(a, arr) :
                      a \in Algs, arr \in {<<>>, <<1>>, <<1, 2>>, <<2, 1>>}} :
        Len(stepList) <= MaxAnimatorSteps}

\* new Animator(renderer) followed by loadSteps(stepList), as in startDemo()
LoadSteps(stepList) ==
    /\ animatorSteps = stepList
    /\ currentStep = 0
    /\ isPlaying = FALSE
    /\ isPaused = FALSE
    /\ playLoops = NoLoops
    /\ stepForwards = 0
    /\ executed = <<>>
    /\ completeCalls = 0
    /\ isDemoPlaying = FALSE

\* the test of the while loop of play(), with this.isPlaying = playing
LoopContinues(playing) == currentStep < Len(animatorSteps) /\ playing

\* play() leaves its loop and invokes the completion callback
LoopCompletes(playing) ==
    ~LoopContinues(playing) /\ currentStep >= Len(animatorSteps)

\* play() from the test of its while loop to its next await or its return,
\* with this.isPlaying = playing and the other play() calls in flight `loops`:
\* a paused pass waits; another pass starts executeStep(currentStep), whose
\* stepCallback runs before its first await; after the loop the completion
\* callback is invoked if no step remains, and isPlaying is cleared
LoopHead(playing, paused, loops) ==
    IF LoopContinues(playing)
    THEN /\ isPlaying' = playing
         /\ isPaused' = paused
         /\ IF paused
            THEN /\ playLoops' = AddLoop(loops, "waitPaused")
                 /\ executed' = executed
            ELSE /\ playLoops' = AddLoop(loops, "executeStep")
                 /\ executed' = Append(executed, currentStep)
         /\ UNCHANGED <<currentStep, completeCalls>>
    ELSE /\ isPlaying' = FALSE
         /\ isPaused' = paused
         /\ playLoops' = loops
         /\ completeCalls' = completeCalls + (IF LoopCompletes(playing) THEN 1 ELSE 0)
         /\ UNCHANGED <<currentStep, executed>>

\* the part of play() that runs inside the call: nothing if isPlaying is
\* set; otherwise the flags are set and the loop starts
PlayCall ==
    IF isPlaying
    THEN UNCHANGED <<currentStep, isPlaying, isPaused, playLoops, executed, completeCalls>>
    ELSE LoopHead(TRUE, FALSE, playLoops)

\* the completion callback startDemo() sets clears isDemoPlaying
PlayCallCompletes == ~isPlaying /\ LoopCompletes(TRUE)

\* play(); calls are tried while fewer than MaxPlayLoops play() calls are in
\* flight and the completion callback has run fewer than MaxCompleteCalls times
Play ==
    /\ LoopCount(playLoops) < MaxPlayLoops
    /\ completeCalls < MaxCompleteCalls
    /\ PlayCall
    /\ isDemoPlaying' = (isDemoPlaying /\ ~PlayCallCompletes)
    /\ UNCHANGED <<animatorSteps, stepForwards>>
    /\ UNCHANGED <<engineVars, gameVars, scoringVars>>

\* pause()
Pause ==
    /\ isPaused' = TRUE
    /\ UNCHANGED <<animatorSteps, currentStep, isPlaying, playLoops, stepForwards,
                   executed, completeCalls, isDemoPlaying>>
    /\ UNCHANGED <<engineVars, gameVars, scoringVars>>

\* stop()
Stop ==
    /\ isPlaying' = FALSE
    /\ isPaused' = FALSE
    /\ UNCHANGED <<animatorSteps, currentStep, playLoops, stepForwards, executed,
                   completeCalls, isDemoPlaying>>
    /\ UNCHANGED <<engineVars, gameVars, scoringVars>>

\* a play() call resumes after the wait(100) of a paused pass
PlayAfterPausedWait ==
    /\ playLoops["waitPaused"] > 0
    /\ LoopHead(isPlaying, isPaused, RemoveLoop(playLoops, "waitPaused"))
    /\ isDemoPlaying' = (isDemoPlaying /\ ~LoopCompletes(isPlaying))
    /\ UNCHANGED <<animatorSteps, stepForwards>>
    /\ UNCHANGED <<engineVars, gameVars, scoringVars>>

\* a play() call resumes after executeStep: this.currentStep++, then the wait
PlayAfterExecuteStep ==
    /\ playLoops["executeStep"] > 0
    /\ currentStep' = currentStep + 1
    /\ playLoops' = AddLoop(RemoveLoop(playLoops, "executeStep"), "wait")
    /\ UNCHANGED <<animatorSteps, isPlaying, isPaused, stepForwards, executed,
                   completeCalls, isDemoPlaying>>
    /\ UNCHANGED <<engineVars, gameVars, scoringVars>>

\* a play() call resumes after the wait between two steps
PlayAfterWait ==
    /\ playLoops["wait"] > 0
    /\ LoopHead(isPlaying, isPaused, RemoveLoop(playLoops, "wait"))
    /\ isDemoPlaying' = (isDemoPlaying /\ ~LoopCompletes(isPlaying))
    /\ UNCHANGED <<animatorSteps, stepForwards>>
    /\ UNCHANGED <<engineVars, gameVars, scoringVars>>

\* stepForward() up to its await: executeStep(currentStep) starts if a step
\* remains; calls are tried while fewer than MaxStepForwards are in flight
StepForward ==
    /\ stepForwards < MaxStepForwards
    /\ IF currentStep < Len(animatorSteps)
       THEN /\ executed' = Append(executed, currentStep)
            /\ stepForwards' = stepForwards + 1
       ELSE UNCHANGED <<executed, stepForwards>>
    /\ UNCHANGED <<animatorSteps, currentStep, isPlaying, isPaused, playLoops,
                   completeCalls, isDemoPlaying>>
    /\ UNCHANGED <<engineVars, gameVars, scoringVars>>

\* a stepForward() call resumes after executeStep: this.currentStep++, then
\* the completion callback if no step remains
StepForwardAfterExecuteStep ==
    /\ stepForwards > 0
    /\ stepForwards' = stepForwards - 1
    /\ currentStep' = currentStep + 1
    /\ IF currentStep + 1 >= Len(animatorSteps)
       THEN /\ completeCalls' = completeCalls + 1
            /\ isDemoPlaying' = FALSE
       ELSE UNCHANGED <<completeCalls, isDemoPlaying>>
    /\ UNCHANGED <<animatorSteps, isPlaying, isPaused, playLoops, executed>>
    /\ UNCHANGED <<engineVars, gameVars, scoringVars>>

\* the calls in flight resume, in any order
Resumptions ==
    \/ PlayAfterPausedWait
    \/ PlayAfterExecuteStep
    \/ PlayAfterWait
    \/ StepForwardAfterExecuteStep

InitAnimatorLoaded ==
    /\ inputArray = <<>>
    /\ engine = "none"
    /\ engineSteps = FreshEngines
    /\ validation = NoValidation
    /\ ResetState
    /\ result = NoResult
    /\ InitScoring
    /\ \E stepList \in AnimatorTraces : LoadSteps(stepList)

NextAnimator ==
    \/ Play
    \/ Pause
    \/ Stop
    \/ StepForward
    \/ Resumptions

\* the Animator under calls of play, pause, stop and stepForward
SpecAnimator == InitAnimatorLoaded /\ [][NextAnimator]_vars

\* ------------------------------------------------- the demo screen's buttons
\* App.toggleDemoPlay() with an animator: pause() if isDemoPlaying, play()
\* otherwise; isDemoPlaying is assigned after the call.  The button is tried
\* within the bounds of Play.
ToggleDemoPlay ==
    /\ LoopCount(playLoops) < MaxPlayLoops
    /\ completeCalls < MaxCompleteCalls
    /\ IF isDemoPlaying
       THEN /\ isPaused' = TRUE
            /\ isDemoPlaying' = FALSE
            /\ UNCHANGED <<currentStep, isPlaying, playLoops, executed, completeCalls>>
       ELSE /\ PlayCall
            /\ isDemoPlaying' = TRUE
    /\ UNCHANGED <<animatorSteps, stepForwards>>
    /\ UNCHANGED <<engineVars, gameVars, scoringVars>>

\* App.demoStepForward() with an animator is stepForward()
NextDemoPlay ==
    \/ ToggleDemoPlay
    \/ StepForward
    \/ Resumptions

\* the demo screen; timers fire and awaited calls return, so a call in flight
\* resumes
SpecDemoPlay ==
    InitAnimatorLoaded /\ [][NextDemoPlay]_vars /\ WF_vars(Resumptions)

\* ================================================================ claims
\* the trace returned by the direct generateSteps call
Trace == engineSteps

\* number of entries of seq equal to v
RECURSIVE Count(_, _)
Count(seq, v) ==
    IF seq = <<>> THEN 0
    ELSE (IF Head(seq) = v THEN 1 ELSE 0) + Count(Tail(seq), v)

IsPermutation(a, b) ==
    /\ Len(a) = Len(b)
    /\ \A v \in Range(a) \cup Range(b) : Count(a, v) = Count(b, v)

IsAscending(a) == \A k \in 1..(Len(a) - 1) : a[k] <= a[k + 1]

\* seq with its first occurrence of v removed
RECURSIVE RemoveOne(_, _)
RemoveOne(seq, v) ==
    IF seq = <<>> THEN <<>>
    ELSE IF Head(seq) = v THEN Tail(seq)
    ELSE <<Head(seq)>> \o RemoveOne(Tail(seq), v)

\* the ascending sort of an array, by repeated extraction of the minimum
RECURSIVE AscendingSort(_)
AscendingSort(arr) ==
    IF arr = <<>> THEN <<>>
    ELSE LET m == CHOOSE v \in Range(arr) : \A w \in Range(arr) : v <= w
         IN <<m>> \o AscendingSort(RemoveOne(arr, m))

\* exchange of two positions (0-based), as a replay of a swap step does it
Exchange(arr, i, j) ==
    [k \in 1..Len(arr) |-> IF k = i + 1 THEN arr[j + 1]
                           ELSE IF k = j + 1 THEN arr[i + 1] ELSE arr[k]]

\* replay of the swap steps of a trace, in trace order, on arr
RECURSIVE ReplaySwaps(_, _)
ReplaySwaps(arr, stepList) ==
    IF stepList = <<>> THEN arr
    ELSE LET step == Head(stepList)
         IN ReplaySwaps(IF step.type = "swap"
                        THEN Exchange(arr, step.indices[1], step.indices[2])
                        ELSE arr,
                        Tail(stepList))

UserActionSteps(stepList) == {k \in 0..(Len(stepList) - 1) : stepList[k + 1].isUserAction}

\* C1: for the five swap engines and every input array, exchanging the index
\* pairs of the trace's swap steps, in trace order, on a copy of the input
\* yields the ascending sort of the input.
C1_SwapReplaySorts ==
    engine \in SwapAlgs =>
        /\ ReplaySwaps(inputArray, Trace) = AscendingSort(inputArray)
        /\ IsAscending(ReplaySwaps(inputArray, Trace))
        /\ IsPermutation(ReplaySwaps(inputArray, Trace), inputArray)

\* a swap engine has produced a trace with at least two swap steps for an
\* input with a repeated value, and the replay has sorted it
C1_Witness ==
    /\ engine \in SwapAlgs
    /\ Len(inputArray) >= 3
    /\ \E v \in Range(inputArray) : Count(inputArray, v) >= 2
    /\ Cardinality({k \in 1..Len(Trace) : Trace[k].type = "swap"}) >= 2
    /\ ReplaySwaps(inputArray, Trace) = AscendingSort(inputArray)
    /\ ReplaySwaps(inputArray, Trace) # inputArray

\* the value a merge select step writes at its position: the array state
\* right after the step, which is the snapshot of the step that follows
PlacedValue(stepList, k) ==
    Get(stepList[k + 2].arrayState, stepList[k + 1].indices[1])

\* C2 (as claimed): for every user-action select step of a merge trace,
\* validateMove accepts a select action exactly when its value is the value
\* that the step places at its output position.
C2_MergeAcceptsPlacedValue ==
    engine = "merge" =>
        \A k \in UserActionSteps(Trace) :
            \A userAction \in UserActions(inputArray) :
                userAction.type = "select" =>
                    (MergeValidateMove(Trace, k, userAction).valid
                        <=> userAction.value = PlacedValue(Trace, k))

\* C3: for the five swap engines and every user-action step, validateMove
\* with a swap action is valid if and only if the unordered pair of indices
\* of the action equals the unordered pair of indices of the step.
C3_SwapValidIffSamePair ==
    engine \in SwapAlgs =>
        \A k \in UserActionSteps(Trace) :
            \A i, j \in -1..Len(inputArray) :
                ValidateMove(engine, Trace, k, SwapAction(i, j)).valid
                    <=> {i, j} = {Trace[k + 1].indices[1], Trace[k + 1].indices[2]}

\* validateMove has just accepted a swap on a swap engine's trace, for an
\* input of at least three elements
C3_Witness ==
    /\ engine \in SwapAlgs
    /\ Len(inputArray) >= 3
    /\ validation.valid
    /\ validation.message = "correct"

\* C4 (as claimed): for every engine and every non-empty input the trace has
\* a last step whose snapshot is the ascending sort of the input, and every
\* snapshot is a permutation of the input of the same length.
C4_Original ==
    (engine # "none" /\ Len(inputArray) > 0) =>
        /\ Len(Trace) > 0
        /\ Last(Trace).arrayState = AscendingSort(inputArray)
        /\ \A k \in 1..Len(Trace) : IsPermutation(Trace[k].arrayState, inputArray)

\* C4 (amended): for every engine and every non-empty input the trace is
\* empty only for bubble on a one-element input; otherwise the last snapshot
\* is the ascending sort of the input; every snapshot has the length of the
\* input; every snapshot of a swap engine is a permutation of the input, and
\* every value of a merge snapshot is a value of the input.
C4_FinalSnapshotSorted ==
    (engine # "none" /\ Len(inputArray) > 0) =>
        /\ (Len(Trace) = 0 <=> (engine = "bubble" /\ Len(inputArray) = 1))
        /\ Len(Trace) > 0 => Last(Trace).arrayState = AscendingSort(inputArray)
        /\ \A k \in 1..Len(Trace) :
              /\ Len(Trace[k].arrayState) = Len(inputArray)
              /\ engine \in SwapAlgs => IsPermutation(Trace[k].arrayState, inputArray)
              /\ engine = "merge" => Range(Trace[k].arrayState) \subseteq Range(inputArray)

\* merge has produced a trace for an unsorted input of at least three
\* elements: its last snapshot is sorted and one of its earlier snapshots
\* holds a value more often than the input does
C4_Witness ==
    /\ engine = "merge"
    /\ Len(inputArray) >= 3
    /\ inputArray # AscendingSort(inputArray)
    /\ Last(Trace).arrayState = AscendingSort(inputArray)
    /\ \E k \in 1..Len(Trace) : ~IsPermutation(Trace[k].arrayState, inputArray)

\* ------------------------------------------------- claims on the session
\* the session waits for a user action at the cursor
PendingUserAction ==
    /\ isGameActive
    /\ ~isGameComplete
    /\ currentStepIndex < Len(steps)
    /\ steps[currentStepIndex + 1].isUserAction

\* the verdict validateMove gives on userAction at the cursor
MoveIsValid(userAction) ==
    ValidateMove(currentAlgorithm, engineSteps, currentStepIndex, userAction).valid

\* the action the step at the cursor records: the swap of its indices, or the
\* selection of its value
ExpectedAction ==
    LET step == steps[currentStepIndex + 1]
    IN IF step.type = "swap"
       THEN SwapAction(step.indices[1], step.indices[2])
       ELSE SelectAction(step.values[1])

\* the index of the first user-action step after index c, or the trace length
NextUserActionAfter(stepList, c) ==
    LET later == {k \in (c + 1)..(Len(stepList) - 1) : stepList[k + 1].isUserAction}
    IN IF later = {} THEN Len(stepList)
       ELSE CHOOSE k \in later : \A m \in later : k <= m

\* C5: whenever a session is complete, by whatever mix of valid moves,
\* invalid moves and skips, its current array is the ascending sort of its
\* original array.
C5_CompleteArraySorted ==
    isGameComplete => currentArray = AscendingSort(originalArray)

\* a session on an unsorted array has completed after a correct move, an
\* invalid move and at least one skipped user action
C5_Witness ==
    /\ isGameComplete
    /\ correctMoves > 0
    /\ incorrectMoves > 0
    /\ correctMoves < UserActionCount(steps)
    /\ originalArray # AscendingSort(originalArray)
    /\ currentArray = AscendingSort(originalArray)

\* C6 (as claimed): in every state of a session the cursor is between 0 and
\* the trace length, sessions whose trace has no user-action step included.
C6_CursorInRange ==
    currentStepIndex >= 0 /\ currentStepIndex <= Len(steps)

\* C7 (as claimed): once startGame has returned, the session is complete
\* exactly when the cursor has reached the trace length, and it is either
\* complete with endTime set, or active at a step that requires a user action.
C7_CompleteOrAtUserAction ==
    currentAlgorithm # "null" =>
        /\ isGameComplete <=> currentStepIndex >= Len(steps)
        /\ \/ isGameComplete /\ endTime # NoTime
           \/ PendingUserAction

C9_ValidMove ==
    [][\A userAction \in SessionActions :
          (PendingUserAction /\ MoveIsValid(userAction) /\ ProcessMove(userAction)) =>
              /\ correctMoves' = correctMoves + 1
              /\ streak' = streak + 1
              /\ maxStreak' = (IF maxStreak >= streak + 1 THEN maxStreak ELSE streak + 1)
              /\ incorrectMoves' = incorrectMoves
              /\ currentStepIndex' = NextUserActionAfter(steps, currentStepIndex)
              /\ \A m \in (currentStepIndex + 1)..(currentStepIndex' - 1) :
                    ~steps[m + 1].isUserAction]_vars

\* two correct moves in a row have been made, the second one after an
\* earlier streak was lost, and the session waits at the next user action
C9_Witness ==
    /\ PendingUserAction
    /\ streak = 2
    /\ maxStreak = 3
    /\ correctMoves = 5
    /\ incorrectMoves = 1

\* the points the claim gives the k-th correct move in a row
ClaimedPoints(k, difficultyKey) ==
    CASE difficultyKey = "easy"   -> IF k >= 5 THEN 150 ELSE 100
      [] difficultyKey = "medium" -> IF k >= 5 THEN 225 ELSE 150
      [] difficultyKey = "hard"   -> IF k >= 5 THEN 300 ELSE 200
      [] difficultyKey = "expert" -> IF k >= 5 THEN 450 ELSE 300

\* C10: the k-th correct move in a row (k is the streak after the move) earns
\* round(150 x multiplier) points if k >= 5 and round(100 x multiplier) if
\* k < 5, with multiplier 1.0, 1.5, 2.0, 3.0 for easy, medium, hard, expert.
\* The points are the growth of the score, less the completion bonuses when
\* the move completes the game.
C10_StreakBonus ==
    [][\A userAction \in SessionActions :
          (PendingUserAction /\ MoveIsValid(userAction) /\ ProcessMove(userAction)) =>
              score' = score + ClaimedPoints(streak + 1, difficulty)
                       + (IF isGameComplete'
                          THEN TimeBonus(endTime' - startTime, Len(steps))
                               + AccuracyBonus(correctMoves', incorrectMoves')
                          ELSE 0)]_vars

\* a medium session has earned 4 x 150 and then 225 points with five correct
\* moves in a row and goes on
C10_Witness ==
    /\ PendingUserAction
    /\ difficulty = "medium"
    /\ streak = 5
    /\ incorrectMoves = 0
    /\ score = 825

\* C11: the score of the session is never negative, whatever valid moves,
\* invalid moves, skips and completion bonuses led to the state.
C11_ScoreNotNegative ==
    score >= 0

\* an invalid move was made on a score below 50 and the penalty was cut at 0
C11_Witness ==
    /\ isGameActive
    /\ incorrectMoves = 1
    /\ correctMoves = 0
    /\ score = 0

\* C12: a processMove or a skipStep on a session that is not active (before
\* startGame, after reset, or complete) returns a failure and leaves the
\* cursor, the score, the streak, maxStreak, correctMoves, incorrectMoves,
\* the current array and endTime unchanged.
C12_InactiveCallChangesNothing ==
    [][(/\ ~isGameActive
        /\ \/ \E userAction \in SessionActions : ProcessMove(userAction)
           \/ SkipStep) =>
           /\ ~result'.success
           /\ UNCHANGED <<currentStepIndex, score, streak, maxStreak, correctMoves,
                          incorrectMoves, currentArray, endTime>>]_vars

\* a call was refused on a complete session that had earned points
C12_Witness ==
    /\ isGameComplete
    /\ ~isGameActive
    /\ ~result.success
    /\ endTime # NoTime
    /\ correctMoves > 0
    /\ score > 0

\* C13 (as claimed): a skipStep on an active session leaves correctMoves,
\* incorrectMoves, the streak and maxStreak unchanged, changes the score only
\* by the completion bonuses when the skip completes the session, and moves
\* the cursor to the first user-action step after the current one, or to the
\* trace length if there is none.
C13_SkipStep ==
    [][(isGameActive /\ ~isGameComplete /\ SkipStep) =>
           /\ UNCHANGED <<correctMoves, incorrectMoves, streak, maxStreak>>
           /\ score' = score + (IF isGameComplete'
                                THEN TimeBonus(endTime' - startTime, Len(steps))
                                     + AccuracyBonus(correctMoves, incorrectMoves)
                                ELSE 0)
           /\ currentStepIndex' = NextUserActionAfter(steps, currentStepIndex)]_vars

\* the engine's array right after the step at index c: the snapshot it takes
\* when it records the step that follows (a user-action step is never the
\* last step of a trace)
EngineArrayAfter(stepList, c) ==
    stepList[c + 2].arrayState

\* C14 (as claimed): after a skipStep on a pending user-action step the
\* current array is the engine's array right after that step, with the
\* expected action applied, also when the following step is a user-action
\* step again.
C14_SkipAppliesAction ==
    [][(PendingUserAction /\ SkipStep) =>
           currentArray' = EngineArrayAfter(steps, currentStepIndex)]_vars

\* a step of reset() or startGame(): the only operations that bind the
\* session to another trace
ResetOrStartGame ==
    currentAlgorithm' = "null" \/ (~isGameActive /\ isGameActive')

\* C15: once generateSteps has returned a trace, neither a processMove (which
\* calls validateMove and its in-place sort of the step's indices), nor a
\* skipStep, nor another generateSteps on the same engine instance changes a
\* step of the trace the session holds, and no processMove or skipStep
\* changes a step of the trace the engine holds.
C15_TraceImmutable ==
    [][/\ (\/ \E userAction \in SessionActions : ProcessMove(userAction)
           \/ SkipStep) =>
              steps' = steps /\ engineSteps' = engineSteps
       /\ ~ResetOrStartGame => steps' = steps]_vars

\* the engine has generated another trace during a session in which a move
\* was validated as correct and a move was validated as incorrect
C15_Witness ==
    /\ isGameActive
    /\ steps # engineSteps
    /\ correctMoves > 0
    /\ incorrectMoves > 0
    /\ \E k \in 1..Len(steps) : steps[k].type = "swap" /\ steps[k].isUserAction

\* C16 (as claimed): a generateSteps call of demo mode on the engine instance
\* of an active session does not affect the session: every later processMove
\* counts the move as correct exactly when validateMove accepts it on the
\* session's own trace, and when the session completes the optimal-swap count
\* the engine reports is the number of swap steps of the session's own trace.
C16_DemoLeavesSessionAlone ==
    [][/\ \A userAction \in SessionActions :
             (PendingUserAction /\ ProcessMove(userAction)) =>
                 (correctMoves' = correctMoves + 1
                     <=> ValidateMove(currentAlgorithm, steps, currentStepIndex,
                                      userAction).valid)
       /\ (isGameActive /\ isGameComplete') =>
              GetOptimalSwapCount(engineSteps') = GetOptimalSwapCount(steps')]_vars

\* C17: in the trace of every engine on every input, each step records as
\* many values as indices, and its snapshot has the length of the input array.
C17_StepShape ==
    engine # "none" =>
        \A k \in 1..Len(Trace) :
            /\ Len(Trace[k].indices) = Len(Trace[k].values)
            /\ Len(Trace[k].arrayState) = Len(inputArray)

\* a trace on an array of three or more elements with steps of no, one and
\* two indices, one of them a user-action step
C17_Witness ==
    /\ engine # "none"
    /\ Len(inputArray) >= 3
    /\ \E k \in 1..Len(Trace) : Len(Trace[k].indices) = 0
    /\ \E k \in 1..Len(Trace) : Len(Trace[k].indices) = 1
    /\ \E k \in 1..Len(Trace) : Len(Trace[k].indices) = 2 /\ Trace[k].isUserAction

C19_TrivialInputTrivialTrace ==
    (engine # "none" /\ Len(inputArray) <= 1) =>
        /\ \A k \in 1..Len(Trace) :
              Trace[k].type = "sorted" /\ ~Trace[k].isUserAction
        /\ GetOptimalSwapCount(Trace) = 0

\* the part of the score growth of a completing step that is the accuracy
\* bonus: the growth less the points of the move (if the step is a correct
\* move) and less the time bonus
AccuracyBonusAdded ==
    score' - score
    - (IF correctMoves' > correctMoves THEN ClaimedPoints(streak', difficulty) ELSE 0)
    - TimeBonus(endTime' - startTime, Len(steps))

\* C20 (as claimed): when a session completes, the accuracy bonus added is
\* 150 if every submitted move was correct, otherwise 100 if
\* correct / (correct + incorrect) >= 0.9, otherwise 0.
C20_Original ==
    [][(isGameActive /\ isGameComplete') =>
           AccuracyBonusAdded =
               (IF incorrectMoves' = 0 THEN 150
                ELSE IF 10 * correctMoves' >= 9 * (correctMoves' + incorrectMoves')
                THEN 100 ELSE 0)]_vars

\* C20 (amended): when a session completes, the accuracy bonus added is 0 if
\* no move was submitted (every user action was skipped, or the trace has
\* none); otherwise 150 if every submitted move was correct, otherwise 100 if
\* correct / (correct + incorrect) >= 0.9, otherwise 0; never 150 and 100
\* together.
C20_AccuracyBonus ==
    [][(isGameActive /\ isGameComplete') =>
           AccuracyBonusAdded =
               (IF correctMoves' + incorrectMoves' = 0 THEN 0
                ELSE IF incorrectMoves' = 0 THEN 150
                ELSE IF 10 * correctMoves' >= 9 * (correctMoves' + incorrectMoves')
                THEN 100 ELSE 0)]_vars

\* a session has completed with nine correct moves and one incorrect move,
\* a ratio of exactly 0.9, in exactly its optimal time (no time bonus)
C20_Witness ==
    /\ isGameComplete
    /\ correctMoves = 9
    /\ incorrectMoves = 1
    /\ endTime - startTime = 2000 * Len(steps)
    /\ difficulty = "easy"
    /\ score >= 900 - 50 + 100


\* ---------------------------------------------------------------- C21
\* the grades from best to worst and the threshold of each
GradeOrder == <<"S", "A", "B", "C", "D", "F">>

GradeThreshold == [S |-> 1500, A |-> 1200, B |-> 900, C |-> 600, D |-> 300, F |-> 0]

\* the position of a grade in GradeOrder: 1 is the best grade
GradeRank(g) == CHOOSE k \in 1..Len(GradeOrder) : GradeOrder[k] = g

\* the threshold of the grade is at most finalScore / multiplier
ThresholdReached(g, finalScore, difficultyKey) ==
    LET multiplier10 == CASE difficultyKey = "easy" -> 10
                          [] difficultyKey = "medium" -> 15
                          [] difficultyKey = "hard" -> 20
                          [] difficultyKey = "expert" -> 30
    IN GradeThreshold[g] * multiplier10 <= 10 * finalScore

\* C21: the grade shown for a final score and a difficulty is the first of
\* S, A, B, C, D, F whose threshold (1500, 1200, 900, 600, 300, 0) is at most
\* the score divided by the difficulty multiplier, F when none is, and the
\* grade of the next higher score at the same difficulty is not worse
C21_GradeByThreshold ==
    grade # "none" =>
        LET s == results.finalScore
            d == results.difficulty
        IN /\ \E k \in 1..Len(GradeOrder) :
                /\ grade = GradeOrder[k]
                /\ ThresholdReached(grade, s, d) \/ grade = "F"
                /\ \A j \in 1..(k - 1) : ~ThresholdReached(GradeOrder[j], s, d)
           /\ GradeRank(CalculateGrade(s + 1, d)) <= GradeRank(grade)

\* a medium game that ends exactly on the threshold of grade A (1200 x 1.5)
C21_Witness ==
    /\ grade = "A"
    /\ results.difficulty = "medium"
    /\ results.finalScore = 1800


\* ---------------------------------------------------------------- C22
\* the ids of a list of achievements
IdSet(ids) == {ids[k] : k \in 1..Len(ids)}

\* the catalog ids whose check holds on st and that are not in earned
HoldingAndNotEarned(st, earned) ==
    {id \in IdSet(AchievementIds) : AchievementCheck(id, st) /\ id \notin earned}

\* C22: at the end of each game checkAchievements returns exactly the catalog
\* achievements whose check holds on the updated statistics and whose id is
\* not stored as earned; the returned ids are stored, stored ids stay stored,
\* so no id is returned at the end of two games
C22_NewAchievementsOnce ==
    [][stats' # stats =>
          /\ IdSet(newAchievements') = HoldingAndNotEarned(stats', achievements)
          /\ IdSet(newAchievements') \cap achievements = {}
          /\ IdSet(newAchievements') \subseteq achievements'
          /\ achievements \subseteq achievements']_vars

\* a later game earns an achievement while the checks of ids earned in
\* earlier games still hold
C22_Witness ==
    /\ stats.gamesCompleted >= 2
    /\ newAchievements # <<>>
    /\ \E id \in achievements \ IdSet(newAchievements) : AchievementCheck(id, stats)


\* ---------------------------------------------------------------- C23
\* the array size the claim gives for each difficulty
ClaimedSize == [easy |-> 5, medium |-> 8, hard |-> 12, expert |-> 16]

\* C23: the array of a game started with input type random has exactly size
\* elements (5, 8, 12, 16 for easy, medium, hard, expert), they are pairwise
\* distinct and each is an integer in 1..10 x size
C23_RandomArrayDistinct ==
    (currentAlgorithm # "null" /\ inputType = "random") =>
        /\ Len(originalArray) = ClaimedSize[difficulty]
        /\ \A i, j \in 1..Len(originalArray) :
              i # j => originalArray[i] # originalArray[j]
        /\ \A i \in 1..Len(originalArray) :
              originalArray[i] \in 1..(10 * ClaimedSize[difficulty])

\* an expert game on a random array that the shuffle has left out of order
C23_Witness ==
    /\ currentAlgorithm # "null"
    /\ inputType = "random"
    /\ difficulty = "expert"
    /\ \E i \in 1..(Len(originalArray) - 1) : originalArray[i] > originalArray[i + 1]
    /\ \E i \in 1..Len(originalArray) : originalArray[i] > 16


\* ---------------------------------------------------------------- C24
\* C24: a started session in which the player submits the accepted action
\* whenever a user-action step is pending eventually becomes complete
C24_SessionCompletes == isGameActive ~> isGameComplete


\* ---------------------------------------------------------------- C25
\* C25: in a session advanced by accepted processMove calls only, whenever
\* the session waits at a user-action step the array of the session equals
\* the snapshot of that step
C25_ArrayIsPendingSnapshot ==
    PendingUserAction => currentArray = steps[currentStepIndex + 1].arrayState


\* ---------------------------------------------------------------- C26
\* the array right after the event of step k (1-based) when arr is the array
\* right before it: a swap step exchanges its two positions, no other step of
\* a swap engine changes the array
AfterSwapEvent(arr, step) ==
    IF step.type = "swap" THEN Exchange(arr, step.indices[1], step.indices[2]) ELSE arr

\* a merge select step writes one value at its position: the arrays before
\* and after it agree at every other position
AgreeExceptAt(a, b, p) ==
    /\ Len(a) = Len(b)
    /\ \A i \in 0..(Len(a) - 1) : i # p => Get(a, i) = Get(b, i)

ClaimedIndexCount ==
    [compare |-> 2, swap |-> 2, select |-> 1, sorted |-> 1, pivot |-> 1,
     divide |-> 2, merge |-> 2]

\* C27 (as claimed): in every trace of every engine the number of indices of
\* a step is fixed by its kind: 2 for compare and swap, 1 for select, sorted
\* and pivot, 2 for divide and merge
C27_Original ==
    engine # "none" =>
        \A k \in 1..Len(Trace) :
            Trace[k].type \in DOMAIN ClaimedIndexCount =>
                Len(Trace[k].indices) = ClaimedIndexCount[Trace[k].type]

\* C27 (amended): a heap trace opens with a divide step that has no indices
\* and has no other divide step; every other step of every trace has 2 indices
\* when its kind is compare, swap, divide or merge and 1 index when its kind
\* is select, sorted, pivot or insert
C27_IndexCountByKind ==
    engine # "none" =>
        /\ engine = "heap" => (Trace[1].type = "divide" /\ Trace[1].indices = <<>>)
        /\ \A k \in 1..Len(Trace) :
              IF engine = "heap" /\ Trace[k].type = "divide"
              THEN k = 1
              ELSE /\ Trace[k].type \in DOMAIN ClaimedIndexCount \cup {"insert"}
                   /\ Len(Trace[k].indices) = IF Trace[k].type = "insert"
                                              THEN 1
                                              ELSE ClaimedIndexCount[Trace[k].type]

\* a heap trace of an input that needs a swap: its divide step has no
\* indices, its compare and swap steps have two
C27_Witness ==
    /\ engine = "heap"
    /\ Len(inputArray) >= 3
    /\ Trace[1].type = "divide"
    /\ Len(Trace[1].indices) = 0
    /\ \E k \in 2..Len(Trace) : Trace[k].type = "swap" /\ Len(Trace[k].indices) = 2
    /\ \E k \in 2..Len(Trace) : Trace[k].type = "compare" /\ Len(Trace[k].indices) = 2


\* ---------------------------------------------------------------- C28
\* C28: in bubble, selection, insertion, quick and heap traces a step is a
\* user action exactly when its kind is swap, and in merge traces exactly
\* when its kind is select; so getUserActionCount() equals
\* getOptimalSwapCount() for the five swap engines and getOptimalSwapCount()
\* is 0 for merge
C28_UserActionKinds ==
    engine # "none" =>
        /\ \A k \in 1..Len(Trace) :
              Trace[k].isUserAction
                  <=> Trace[k].type = (IF engine = "merge" THEN "select" ELSE "swap")
        /\ engine \in SwapAlgs => UserActionCount(Trace) = GetOptimalSwapCount(Trace)
        /\ engine = "merge" => GetOptimalSwapCount(Trace) = 0

\* a quick trace with select steps that are not user actions and swap steps
\* that are
C28_Witness ==
    /\ engine = "quick"
    /\ \E k \in 1..Len(Trace) : Trace[k].type = "select" /\ ~Trace[k].isUserAction
    /\ \E k \in 1..Len(Trace) : Trace[k].type = "swap" /\ Trace[k].isUserAction
    /\ UserActionCount(Trace) >= 2


\* ---------------------------------------------------------------- C29
\* the positions that are the index of some sorted step of the trace
SortedPositions(stepList) ==
    {stepList[k].indices[1] : k \in {m \in 1..Len(stepList) : stepList[m].type = "sorted"}}

\* C29: for each of the six engines and every input of length n >= 2, every
\* position 0..n-1 is the index of at least one sorted step of the trace
C29_EveryPositionSorted ==
    (engine # "none" /\ Len(inputArray) >= 2) =>
        (0..(Len(inputArray) - 1)) \subseteq SortedPositions(Trace)


\* a heap trace with swaps for an input of at least three elements, with a
\* sorted step for each position
C29_Witness ==
    /\ engine = "heap"
    /\ Len(inputArray) >= 3
    /\ \E k \in 1..Len(Trace) : Trace[k].type = "swap"
    /\ SortedPositions(Trace) = 0..(Len(inputArray) - 1)


\* ---------------------------------------------------------------- C30
\* step k (1-based) of the trace is a user-action swap step on the pair p
SwapStepOn(stepList, k, p) ==
    /\ k >= 1
    /\ k <= Len(stepList)
    /\ stepList[k].type = "swap"
    /\ stepList[k].isUserAction
    /\ stepList[k].indices = p

\* C30: in every bubble trace each compare step is on an adjacent pair
\* [j, j+1] and is immediately followed by a user-action swap step on the
\* same pair if and only if the left value is greater than the right value;
\* every swap step immediately follows a compare step on its pair
C30_BubbleCompareThenSwap ==
    engine = "bubble" =>
        \A k \in 1..Len(Trace) :
            /\ Trace[k].type = "compare" =>
                  /\ Len(Trace[k].indices) = 2
                  /\ Trace[k].indices[2] = Trace[k].indices[1] + 1
                  /\ SwapStepOn(Trace, k + 1, Trace[k].indices)
                        <=> Trace[k].values[1] > Trace[k].values[2]
                  /\ Trace[k].values = MapGet(Trace[k].arrayState, Trace[k].indices)
            /\ Trace[k].type = "swap" =>
                  /\ k > 1
                  /\ Trace[k - 1].type = "compare"
                  /\ Trace[k - 1].indices = Trace[k].indices
                  /\ Trace[k].isUserAction

\* a bubble trace with a compare step followed by a swap, a compare step on
\* equal values and a compare step on ascending values, neither followed by
\* a swap
C30_Witness ==
    /\ engine = "bubble"
    /\ \E k \in 1..(Len(Trace) - 1) :
          /\ Trace[k].type = "compare"
          /\ Trace[k].values[1] > Trace[k].values[2]
          /\ SwapStepOn(Trace, k + 1, Trace[k].indices)
    /\ \E k \in 1..(Len(Trace) - 1) :
          /\ Trace[k].type = "compare"
          /\ Trace[k].values[1] = Trace[k].values[2]
          /\ Trace[k + 1].type # "swap"
    /\ \E k \in 1..(Len(Trace) - 1) :
          /\ Trace[k].type = "compare"
          /\ Trace[k].values[1] < Trace[k].values[2]
          /\ Trace[k + 1].type # "swap"


\* ---------------------------------------------------------------- C31
\* the first step (1-based) of the pass that ends right before step k: the
\* steps of a pass are the compare and swap steps between two sorted steps
PassStart(stepList, k) ==
    LET marks == {m \in 1..(k - 1) : stepList[m].type = "sorted"}
    IN IF marks = {} THEN 1
       ELSE (CHOOSE m \in marks : \A o \in marks : o <= m) + 1

\* step k is the sorted step that closes a pass without a swap step
ClosesPassWithoutSwap(stepList, k) ==
    /\ k > 1
    /\ stepList[k].type = "sorted"
    /\ stepList[k - 1].type # "sorted"
    /\ \A m \in PassStart(stepList, k)..(k - 1) : stepList[m].type # "swap"

\* the positions marked by the sorted steps from..to of the trace
MarkedBetween(stepList, from, to) ==
    {stepList[m].indices[1] : m \in {o \in from..to : stepList[o].type = "sorted"}}

\* C31: in every bubble trace, once a pass has emitted no swap step no compare
\* or swap step follows: the rest of the trace consists of sorted steps, and
\* they cover every position that was not marked before
C31_BubbleEarlyExit ==
    engine = "bubble" =>
        \A k \in 1..Len(Trace) :
            ClosesPassWithoutSwap(Trace, k) =>
                /\ \A m \in k..Len(Trace) : Trace[m].type = "sorted"
                /\ MarkedBetween(Trace, 1, k - 1) \cup MarkedBetween(Trace, k, Len(Trace))
                      = 0..(Len(inputArray) - 1)

\* a bubble trace whose first pass swaps and whose second pass does not,
\* with at least two positions left to mark at the exit
C31_Witness ==
    /\ engine = "bubble"
    /\ \E k \in 1..Len(Trace) :
          /\ ClosesPassWithoutSwap(Trace, k)
          /\ MarkedBetween(Trace, 1, k - 1) # {}
          /\ \E m \in 1..(k - 1) : Trace[m].type = "swap"
          /\ Len(Trace) >= k + 2


\* ---------------------------------------------------------------- C32
\* the merge step (1-based) whose merge the compare step c belongs to
MergeStepOf(stepList, c) ==
    CHOOSE m \in 1..c :
        /\ stepList[m].type = "merge"
        /\ \A o \in (m + 1)..c : stepList[o].type # "merge"

\* the heads L[i] and R[j] a compare step of a merge compares: the runs are
\* copied from the array as the merge step shows it
ComparedHeads(stepList, c) ==
    MapGet(stepList[MergeStepOf(stepList, c)].arrayState, stepList[c].indices)

\* the last index of the left run of the merge the compare step c belongs to
LeftRunEnd(stepList, c) ==
    LET range == stepList[MergeStepOf(stepList, c)].indices
    IN range[1] + ((range[2] - range[1]) \div 2)

\* C32: in every merge trace, when the two compared heads are equal the
\* select step that follows places the left run's element: the value written
\* is that value and the merge goes on with the next element of the left run
\* against the same element of the right run, or, when the left run is used
\* up, with the selects of the rest of the right run
C32_MergeTieTakesLeft ==
    engine = "merge" =>
        \A c \in 1..Len(Trace) :
            (Trace[c].type = "compare"
                 /\ ComparedHeads(Trace, c)[1] = ComparedHeads(Trace, c)[2]) =>
                /\ c + 2 <= Len(Trace)
                /\ Trace[c + 1].type = "select"
                /\ PlacedValue(Trace, c) = ComparedHeads(Trace, c)[1]
                /\ IF Trace[c].indices[1] < LeftRunEnd(Trace, c)
                   THEN /\ Trace[c + 2].type = "compare"
                        /\ Trace[c + 2].indices
                              = <<Trace[c].indices[1] + 1, Trace[c].indices[2]>>
                   ELSE Trace[c + 2].type = "select"

\* a merge of two runs of two elements whose first heads are equal: the next
\* compare is on the second element of the left run
C32_Witness ==
    /\ engine = "merge"
    /\ Len(inputArray) = 4
    /\ \E c \in 1..(Len(Trace) - 2) :
          /\ Trace[c].type = "compare"
          /\ Trace[c].indices = <<0, 2>>
          /\ ComparedHeads(Trace, c)[1] = ComparedHeads(Trace, c)[2]
          /\ Trace[c + 2].type = "compare"
          /\ Trace[c + 2].indices = <<1, 2>>


\* ---------------------------------------------------------------- C33
\* the sorted step (1-based) of the pivot of the range the divide step d
\* opens: the first sorted step after d
PivotSortedStep(stepList, d) ==
    CHOOSE s \in (d + 1)..Len(stepList) :
        /\ stepList[s].type = "sorted"
        /\ \A o \in (d + 1)..(s - 1) : stepList[o].type # "sorted"

\* C33: in every quick trace the pivot of a range [low, high] is the element
\* at index high: the divide step of the range is followed by a pivot step on
\* high, and the first pivot step of a run on n elements is on n-1.  In the
\* snapshot of the pivot's sorted step every element of the range left of the
\* pivot's position is smaller than the pivot and every element of the range
\* right of it is greater than or equal to it
C33_QuickPartition ==
    engine = "quick" =>
        /\ \A k \in 1..Len(Trace) :
              (Trace[k].type = "pivot" /\ \A o \in 1..(k - 1) : Trace[o].type # "pivot")
                  => Trace[k].indices = <<Len(inputArray) - 1>>
        /\ \A d \in 1..Len(Trace) :
              Trace[d].type = "divide" =>
                  LET low  == Trace[d].indices[1]
                      high == Trace[d].indices[2]
                      s    == PivotSortedStep(Trace, d)
                      p    == Trace[s].indices[1]
                      arr  == Trace[s].arrayState
                      pivot == Get(Trace[d].arrayState, high)
                  IN /\ d < Len(Trace)
                     /\ Trace[d + 1].type = "pivot"
                     /\ Trace[d + 1].indices = <<high>>
                     /\ Trace[d + 1].values = <<pivot>>
                     /\ \E o \in (d + 1)..Len(Trace) : Trace[o].type = "sorted"
                     /\ p \in low..high
                     /\ Get(arr, p) = pivot
                     /\ \A x \in low..(p - 1) : Get(arr, x) < pivot
                     /\ \A x \in (p + 1)..high : Get(arr, x) >= pivot

\* a range of at least three elements whose pivot ends inside the range, with
\* a smaller element on its left and an equal element on its right
C33_Witness ==
    /\ engine = "quick"
    /\ \E d \in 1..Len(Trace) :
          /\ Trace[d].type = "divide"
          /\ Trace[d].indices[2] - Trace[d].indices[1] >= 2
          /\ LET s == PivotSortedStep(Trace, d)
                 p == Trace[s].indices[1]
             IN /\ p > Trace[d].indices[1]
                /\ p < Trace[d].indices[2]
                /\ Get(Trace[s].arrayState, p + 1) = Get(Trace[s].arrayState, p)
                /\ Trace[s].arrayState # Trace[d].arrayState


\* ---------------------------------------------------------------- C34
\* positions 0..last of arr form a max-heap: no element is greater than its
\* parent
IsMaxHeap(arr, last) ==
    \A c \in 1..last : Get(arr, (c - 1) \div 2) >= Get(arr, c)

\* step k (1-based) is a root-extraction swap: the swap of the root with the
\* last unsorted position, which the sorted step of that position follows
RootExtraction(stepList, k) ==
    /\ k < Len(stepList)
    /\ stepList[k].type = "swap"
    /\ stepList[k + 1].type = "sorted"
    /\ stepList[k].indices[1] = 0
    /\ stepList[k + 1].indices = <<stepList[k].indices[2]>>

\* C34: in every heap trace, at each root-extraction swap step on [0, i] the
\* positions 0..i of the snapshot form a max-heap, so element 0 is a maximum
\* of positions 0..i, and the positions above i hold their final sorted values
C34_HeapAtExtraction ==
    engine = "heap" =>
        /\ \A k \in 1..(Len(Trace) - 1) :
              (Trace[k].type = "swap" /\ Trace[k + 1].type = "sorted")
                  => RootExtraction(Trace, k)
        /\ \A k \in 1..Len(Trace) :
              RootExtraction(Trace, k) =>
                  LET i   == Trace[k].indices[2]
                      arr == Trace[k].arrayState
                  IN /\ IsMaxHeap(arr, i)
                     /\ \A x \in 0..i : Get(arr, 0) >= Get(arr, x)
                     /\ \A x \in (i + 1)..(Len(arr) - 1) :
                           Get(arr, x) = Get(AscendingSort(inputArray), x)

\* the second extraction of a heap trace on four elements, after the heap of
\* three was repaired with a swap: position 3 holds the maximum
C34_Witness ==
    /\ engine = "heap"
    /\ Len(inputArray) = 4
    /\ \E k \in 3..Len(Trace) :
          /\ RootExtraction(Trace, k)
          /\ Trace[k].indices = <<0, 2>>
          /\ Trace[k - 1].type = "swap"
          /\ IsMaxHeap(Trace[k].arrayState, 2)
          /\ Get(Trace[k].arrayState, 0) > Get(Trace[k].arrayState, 1)
          /\ Get(Trace[k].arrayState, 3) = Get(AscendingSort(inputArray), 3)


\* ---------------------------------------------------------------- C35
\* the number of completed games of engine a that updateStats has recorded
RecordedGames(st, a) == AlgorithmGames(st, AlgoKey[a])

\* C35: when the fifth completed Bubble Sort game is recorded with
\* updateStats and bubble_master was not earned before, checkAchievements on
\* the resulting statistics returns bubble_master; likewise quick_professional
\* at the fifth completed Quick Sort game
C35_MasterAfterFiveGames ==
    [][/\ (RecordedGames(stats, "bubble") = 4 /\ RecordedGames(stats', "bubble") = 5
              /\ "bubble_master" \notin achievements)
          => "bubble_master" \in IdSet(newAchievements')
       /\ (RecordedGames(stats, "quick") = 4 /\ RecordedGames(stats', "quick") = 5
              /\ "quick_professional" \notin achievements)
          => "quick_professional" \in IdSet(newAchievements')]_vars

\* ---------------------------------------------------------------- C36
\* timeTaken of getResults() in tenths of a second
TimeTakenTenths(elapsed) == RoundDiv(elapsed, 100)

\* perfect + accuracy of calculateGameBonuses() on the counts and the time of
\* the session that has just completed
ScoringPerfectAndAccuracy ==
    LET bonuses == CalculateGameBonuses(correctMoves', incorrectMoves',
                                        TimeTakenTenths(endTime' - startTime))
    IN bonuses.perfect + bonuses.accuracy

\* C36: when a session completes, the perfect/accuracy bonus completeGame()
\* adds to the score equals perfect + accuracy of calculateGameBonuses() on
\* the session's counts of correct and incorrect moves
C36_BonusTablesAgree ==
    [][(isGameActive /\ isGameComplete') =>
           AccuracyBonusAdded = ScoringPerfectAndAccuracy]_vars

\* a session has completed with one incorrect move and a ratio of at least
\* 0.9, the case where both tables give the accuracy bonus and not the
\* perfect bonus
C36_Witness ==
    /\ isGameComplete
    /\ incorrectMoves = 1
    /\ 10 * correctMoves >= 9 * (correctMoves + incorrectMoves)
    /\ CalculateGameBonuses(correctMoves, incorrectMoves, 0).accuracy = 100
    /\ CalculateGameBonuses(correctMoves, incorrectMoves, 0).perfect = 0
    /\ AccuracyBonus(correctMoves, incorrectMoves) = 100

\* ---------------------------------------------------------------- C37
\* every index step records is a position of an array of n elements, and
\* every value it records is an element read at such a position
IndicesInRange(step, n) ==
    /\ \A m \in 1..Len(step.indices) : step.indices[m] >= 0 /\ step.indices[m] < n
    /\ \A m \in 1..Len(step.values) : step.values[m] # Undefined

\* C37: in the trace of every engine on every input array, the empty array
\* included, every index recorded in a step is a valid position of the input
\* (0 <= index < n), and every recorded value is an element of the array
C37_IndicesInRange ==
    engine # "none" =>
        \A k \in 1..Len(Trace) : IndicesInRange(Trace[k], Len(inputArray))

\* ---------------------------------------------------------------- C38
\* pause() has been called while play() was running with steps remaining, and
\* the play/pause button has since issued play(): isPaused is set by pause()
\* only, and isDemoPlaying by the button's play() branch only
PlayIssuedAfterPause ==
    /\ isDemoPlaying
    /\ isPaused
    /\ isPlaying
    /\ currentStep < Len(animatorSteps)

\* C38: after play() has started playback and pause() has been called with
\* steps remaining, a later play() issued by the play/pause button resumes
\* playback: unless the button pauses it again, currentStep eventually
\* reaches steps.length
C38_PlayResumesAfterPause ==
    PlayIssuedAfterPause ~> (currentStep >= Len(animatorSteps) \/ ~isDemoPlaying)

\* ---------------------------------------------------------------- C39
\* executeStep has been called with the indices 0, 1, 2, ... in this order:
\* no step was skipped and none was executed twice
ExecutedInOrder == \A k \in 1..Len(executed) : executed[k] = k - 1

\* C39: under every interleaving of a running play() loop with stepForward(),
\* stop() and further play() calls at its await points, currentStep never
\* exceeds steps.length, no step is skipped or executed twice, and the
\* completion callback is invoked at most once for the loaded trace
C39_PlaybackSafe ==
    /\ currentStep <= Len(animatorSteps)
    /\ ExecutedInOrder
    /\ completeCalls <= 1
====
